---- MODULE Spec2Model ----
(***************************************************************************)
(* Object model of python-bale-bot: the typed entities decoded from the    *)
(* platform's JSON payloads (Chat, ChatMember, Message, Contact, Video),   *)
(* their derived accessors, and the error taxonomy of bale/_error.py.      *)
(*                                                                         *)
(* Python values are tagged records (kind |-> ...), so that None, the      *)
(* MissingValue sentinel, strings, ints, lists, dicts and entities can be  *)
(* compared with one another.  A JSON object is DictV(m) with m a function *)
(* from key names to values.                                               *)
(***************************************************************************)
EXTENDS Integers, Sequences, FiniteSets, TLC

\* Every attribute, key and field name of the model, in the order in which
\* records list their fields: a record built with its fields in this order is
\* in TLC's normal form from the start.
FieldOrder(
    _id, _locked, all_members_are_administrators, animation, arg, audio, b, big_file_id, bot, call,
    can_add_story, can_be_edited, can_change_info, can_delete_messages,
    can_edit_messages, can_invite_users, can_pin_messages,
    can_post_messages, can_promote_members, can_reply_to_story,
    can_restrict_members, can_see_members, can_send_forwarded_message,
    can_send_link_message, can_send_media_messages, can_send_messages,
    caption, chars, chat, chat_id, chat_type, components, contact, date,
    delay, delete_after, description, document, duration, edit_date, err,
    fields, file_id, file_name, file_size, file_unique_id, first_name,
    forward_from, forward_from_chat, forward_from_message_id, from,
    from_user, height, id, invite_link, invoice, invoice_payload,
    is_flexible, is_member, kind, kw, l, last_name, left_chat_member,
    location, m, made, media, message, message_id, mime_type, n,
    need_email, need_name, need_phone_number, need_shipping_address,
    new_chat_members, only_if_banned, op, payload, phone_number, photo,
    photo_url, photos, pinned_message, pos, prices, provider_token,
    reply_to_message, reply_to_message_id, ret, s, sent, small_file_id, status, sticker,
    successful_payment, t, text, title, type, user, user_id, username,
    val, video, voice, width) == TRUE

VARIABLES heap, last, pending

vars == <<heap, last, pending>>

(***************************************************************************)
(* Bounds of the model.                                                    *)
(***************************************************************************)
\* chat, user and message identifiers are drawn from 1..MaxId
MaxId == 2
\* deepest reply_to_message nesting of a generated Message payload
MaxDepth == 3
\* callers that may have a shortcut method of the same entity in flight
MaxCallers == 2

(***************************************************************************)
(* Python values.                                                          *)
(***************************************************************************)
None == [kind |-> "None"]
MissingValue == [kind |-> "MissingValue"]
StrV(s) == [kind |-> "str", s |-> s]
IntV(n) == [kind |-> "int", n |-> n]
BoolV(b) == [b |-> b, kind |-> "bool"]
ListV(l) == [kind |-> "list", l |-> l]
DictV(m) == [kind |-> "dict", m |-> m]
\* a string whose characters matter: the sequence of its characters
TextV(chars) == [chars |-> chars, kind |-> "text"]
\* a timestamp converted by helpers.parse_time
DateV(t) == [kind |-> "datetime", t |-> t]

EmptyMap == [k \in {} |-> None]

EntityKinds == {"Chat", "ChatMember", "Message", "Contact", "Video", "User",
                "ChatPhoto", "PhotoSize", "Document", "Audio", "Voice",
                "Animation", "Location", "Sticker", "Invoice", "SuccessfulPayment"}

IsEntity(v) == v.kind \in EntityKinds

\* bool(v): None and the sentinel are falsy, containers are falsy when empty,
\* an entity (no __bool__/__len__) is truthy.
Truthy(v) ==
    CASE v.kind = "None" -> FALSE
      [] v.kind = "MissingValue" -> FALSE
      [] v.kind = "str" -> v.s # ""
      [] v.kind = "text" -> Len(v.chars) > 0
      [] v.kind = "int" -> v.n # 0
      [] v.kind = "bool" -> v.b
      [] v.kind = "list" -> Len(v.l) > 0
      [] v.kind = "dict" -> DOMAIN v.m # {}
      [] OTHER -> TRUE

\* a or b
PyOr(a, b) == IF Truthy(a) THEN a ELSE b

(***************************************************************************)
(* dict operations on the raw mapping m of a DictV.                        *)
(***************************************************************************)
\* m.get(k) and m.get(k, d)
Get(m, k) == IF k \in DOMAIN m THEN m[k] ELSE None
GetOr(m, k, d) == IF k \in DOMAIN m THEN m[k] ELSE d
\* m[k] = v
Put(m, k, v) == [x \in DOMAIN m \cup {k} |-> IF x = k THEN v ELSE m[x]]
\* the mapping left by m.pop(k) / m.pop(k, d)
Del(m, k) == [x \in DOMAIN m \ {k} |-> m[x]]
\* keep only the keys in ks
Restrict(m, ks) == [x \in DOMAIN m \cap ks |-> m[x]]
\* the value of an optional constructor parameter: the caller's keyword
\* argument, or the default MissingValue of the signature
Arg(kw, k) == IF k \in DOMAIN kw THEN kw[k] ELSE MissingValue

(***************************************************************************)
(* Outcome of a call: a returned value or a raised exception, with the     *)
(* number of entity constructors that ran.                                 *)
(***************************************************************************)
Ret(v, n) == [err |-> "none", made |-> n, val |-> v]
Raise(e, n) == [err |-> e, made |-> n, val |-> None]

(***************************************************************************)
(* BaleObject: parsing, locking, identity.                                 *)
(***************************************************************************)
\* BaleObject.parse_data: null for an absent or empty payload, else a copy
parse_data(data) ==
    IF data.kind = "dict" /\ DOMAIN data.m # {} THEN data ELSE None

\* BaleObject.set_bot, called by from_dict on the constructed object
set_bot(obj, bot) == [obj EXCEPT !.bot = bot]

\* BaleObject.__eq__ and __hash__: same class and same _id
Eq(a, b) == a.kind = b.kind /\ a._id = b._id
Hash(a) == <<a.kind, a._id>>

\* BaleObject.__setattr__ on a constructed object: the object after the
\* attempt and the error raised
SetAttrObj(obj, f, v) == IF obj._locked THEN obj ELSE [obj EXCEPT ![f] = v]
SetAttrErr(obj) == IF obj._locked THEN "AttributeError" ELSE "none"

\* from_dict of the sibling entities (User, ChatPhoto, PhotoSize, Document,
\* ...): null for an empty payload, else the entity with the payload's fields
SiblingFromDict(cls, data, bot) ==
    IF parse_data(data) = None
    THEN Ret(None, 0)
    ELSE Ret([_id |-> Get(data.m, "id"), _locked |-> TRUE, bot |-> bot,
              fields |-> data.m, id |-> Get(data.m, "id"), kind |-> cls,
              user_id |-> Get(data.m, "id")], 1)

\* helpers.parse_time: a Unix timestamp becomes a datetime, null stays null
parse_time(v) == IF v.kind = "int" THEN DateV(v.n) ELSE None

(***************************************************************************)
(* Chat (bale/_chat.py).                                                   *)
(***************************************************************************)
PRIVATE == "private"
GROUP == "group"
CHANNEL == "channel"

ChatRequired == {"chat_id", "chat_type"}
ChatParams == ChatRequired \cup
    {"title", "username", "first_name", "last_name", "photo", "invite_link"}

\* Chat.__init__ without the final self._lock()
ChatInitNoLock(kw) ==
    [_id |-> kw["chat_id"], _locked |-> FALSE, bot |-> None,
     first_name |-> Arg(kw, "first_name"), id |-> kw["chat_id"],
     invite_link |-> Arg(kw, "invite_link"), kind |-> "Chat",
     last_name |-> Arg(kw, "last_name"), photo |-> Arg(kw, "photo"),
     title |-> Arg(kw, "title"), type |-> kw["chat_type"],
     username |-> Arg(kw, "username")]

\* Chat.__init__ taking the chat type for the identity
ChatInitTypeId(kw) ==
    [ChatInitNoLock(kw) EXCEPT !._id = kw["chat_type"], !._locked = TRUE]

\* Chat.__init__, applied to its keyword arguments
ChatInit(kw) ==
    [_id |-> kw["chat_id"], _locked |-> TRUE, bot |-> None,
     first_name |-> Arg(kw, "first_name"), id |-> kw["chat_id"],
     invite_link |-> Arg(kw, "invite_link"), kind |-> "Chat",
     last_name |-> Arg(kw, "last_name"), photo |-> Arg(kw, "photo"),
     title |-> Arg(kw, "title"), type |-> kw["chat_type"],
     username |-> Arg(kw, "username")]

\* is_group_chat comparing with the wrong class constant
is_group_chat_private(chat) == chat.type = StrV(PRIVATE)

is_private_chat(chat) == chat.type = StrV(PRIVATE)
is_group_chat(chat) == chat.type = StrV(GROUP)
is_channel_chat(chat) == chat.type = StrV(CHANNEL)

\* BaleObject.from_dict for a Chat: bind the mapping's known keys to the
\* constructor's parameters, construct, attach the client
ChatConstruct(m, bot, n) ==
    IF ~(ChatRequired \subseteq DOMAIN m)
    THEN Raise("TypeError", n)
    ELSE Ret(set_bot(ChatInit(Restrict(m, ChatParams)), bot), n + 1)

\* Chat.from_dict after the emptiness check: the renames of id and type, the
\* nested photo, the constructor
ChatFromDictBody(m, bot) ==
    IF "id" \notin DOMAIN m THEN Raise("KeyError", 0)
    ELSE LET d1 == Put(Del(m, "id"), "chat_id", m["id"]) IN
         IF "type" \notin DOMAIN d1 THEN Raise("KeyError", 0)
         ELSE LET d2 == Put(Del(d1, "type"), "chat_type", d1["type"])
                  ph == SiblingFromDict("ChatPhoto", Get(d2, "photo"), bot)
              IN  ChatConstruct(Put(d2, "photo", ph.val), bot, ph.made)

\* Chat.from_dict returning early for null only, not for an empty mapping
ChatFromDictNullOnly(data, bot) ==
    IF data = None THEN Ret(None, 0) ELSE ChatFromDictBody(data.m, bot)

\* Chat.from_dict
ChatFromDict(data, bot) ==
    LET d == parse_data(data) IN
    IF ~Truthy(d) THEN Ret(None, 0) ELSE ChatFromDictBody(d.m, bot)

(***************************************************************************)
(* ChatMember (bale/_chatmember.py).                                       *)
(***************************************************************************)
OWNER == "creator"
ADMIN == "administrator"
MEMBER == "member"

ChatMemberRequired == {"status", "user"}
ChatMemberFlags ==
    {"is_member", "can_change_info", "can_post_messages", "can_edit_messages",
     "can_delete_messages", "can_invite_users", "can_restrict_members",
     "can_pin_messages", "can_promote_members", "can_send_messages",
     "can_send_media_messages", "can_reply_to_story", "can_send_link_message",
     "can_send_forwarded_message", "can_see_members", "can_add_story",
     "can_be_edited"}
ChatMemberParams == ChatMemberRequired \cup ChatMemberFlags

TupleV(t) == [kind |-> "tuple", t |-> t]

\* ChatMember.__init__: the fields, then _id = (self.user.id, self.status),
\* which raises when user is not an object
ChatMemberInit(kw) ==
    IF ~IsEntity(kw["user"])
    THEN Raise("AttributeError", 0)
    ELSE Ret([k \in ChatMemberFlags \cup
                    {"kind", "status", "user", "_id", "bot", "_locked"} |->
                CASE k = "kind" -> "ChatMember"
                  [] k = "status" -> kw["status"]
                  [] k = "user" -> kw["user"]
                  [] k = "_id" -> TupleV(<<kw["user"].id, kw["status"]>>)
                  [] k = "bot" -> None
                  [] k = "_locked" -> TRUE
                  [] OTHER -> Arg(kw, k)], 1)

is_owner(member) == member.status = StrV(OWNER)

\* is_admin testing the administrator status alone
is_admin_only(member) == member.status = StrV(ADMIN)

is_admin(member) == member.status \in {StrV(OWNER), StrV(ADMIN)}

ChatMemberConstruct(m, bot, n) ==
    IF ~(ChatMemberRequired \subseteq DOMAIN m)
    THEN Raise("TypeError", n)
    ELSE LET r == ChatMemberInit(Restrict(m, ChatMemberParams)) IN
         IF r.err # "none" THEN Raise(r.err, n)
         ELSE Ret(set_bot(r.val, bot), n + 1)

\* ChatMember.from_dict
ChatMemberFromDict(data, bot) ==
    LET d == parse_data(data) IN
    IF ~Truthy(d) THEN Ret(None, 0)
    ELSE LET u == SiblingFromDict("User", Get(d.m, "user"), bot)
         IN  ChatMemberConstruct(Put(d.m, "user", u.val), bot, u.made)

(***************************************************************************)
(* Contact and Video (bale/attachments).                                   *)
(***************************************************************************)
ContactRequired == {"phone_number", "first_name"}
ContactParams == ContactRequired \cup {"last_name", "user_id"}

\* Contact.__init__
ContactInit(kw) ==
    [_id |-> Arg(kw, "user_id"), _locked |-> TRUE, bot |-> None,
     first_name |-> kw["first_name"], kind |-> "Contact",
     last_name |-> Arg(kw, "last_name"), phone_number |-> kw["phone_number"],
     user_id |-> Arg(kw, "user_id")]

ContactConstruct(m, bot, n) ==
    IF ~(ContactRequired \subseteq DOMAIN m)
    THEN Raise("TypeError", n)
    ELSE Ret(set_bot(ContactInit(Restrict(m, ContactParams)), bot), n + 1)

\* Contact.from_dict, inherited from BaleObject
ContactFromDict(data, bot) ==
    LET d == parse_data(data) IN
    IF ~Truthy(d) THEN Ret(None, 0) ELSE ContactConstruct(d.m, bot, 0)

VideoRequired == {"file_id", "file_unique_id", "width", "height", "duration"}
VideoParams == VideoRequired \cup {"file_name", "mime_type", "file_size"}

\* Video.__init__: BaseFile.__init__(file_id, file_unique_id, file_size), then
\* the video's own fields, then the lock
VideoInit(kw) ==
    [_id |-> kw["file_unique_id"], _locked |-> TRUE, bot |-> None,
     duration |-> kw["duration"], file_id |-> kw["file_id"],
     file_name |-> Arg(kw, "file_name"), file_size |-> Arg(kw, "file_size"),
     file_unique_id |-> kw["file_unique_id"], height |-> kw["height"],
     kind |-> "Video", mime_type |-> Arg(kw, "mime_type"), width |-> kw["width"]]

VideoConstruct(m, bot, n) ==
    IF ~(VideoRequired \subseteq DOMAIN m)
    THEN Raise("TypeError", n)
    ELSE Ret(set_bot(VideoInit(Restrict(m, VideoParams)), bot), n + 1)

\* Video.from_dict, inherited from BaleObject
VideoFromDict(data, bot) ==
    LET d == parse_data(data) IN
    IF ~Truthy(d) THEN Ret(None, 0) ELSE VideoConstruct(d.m, bot, 0)

(***************************************************************************)
(* Message (bale/_message.py).                                             *)
(***************************************************************************)
MessageRequired == {"message_id", "date"}
MessageOptional ==
    {"text", "caption", "forward_from", "forward_from_chat",
     "forward_from_message_id", "from_user", "document", "contact", "edit_date",
     "location", "chat", "video", "photos", "sticker", "reply_to_message",
     "invoice", "audio", "voice", "successful_payment", "animation",
     "new_chat_members", "left_chat_member"}
MessageParams == MessageRequired \cup MessageOptional

\* Message.__init__
MessageInit(kw) ==
    [_id |-> kw["message_id"], _locked |-> TRUE, animation |-> Arg(kw, "animation"),
     audio |-> Arg(kw, "audio"), bot |-> None, caption |-> Arg(kw, "caption"),
     chat |-> Arg(kw, "chat"), contact |-> Arg(kw, "contact"), date |-> kw["date"],
     document |-> Arg(kw, "document"), edit_date |-> Arg(kw, "edit_date"),
     forward_from |-> Arg(kw, "forward_from"),
     forward_from_chat |-> Arg(kw, "forward_from_chat"),
     forward_from_message_id |-> Arg(kw, "forward_from_message_id"),
     from_user |-> Arg(kw, "from_user"), invoice |-> Arg(kw, "invoice"),
     kind |-> "Message", left_chat_member |-> Arg(kw, "left_chat_member"),
     location |-> Arg(kw, "location"), message_id |-> kw["message_id"],
     new_chat_members |-> Arg(kw, "new_chat_members"), photos |-> Arg(kw, "photos"),
     reply_to_message |-> Arg(kw, "reply_to_message"),
     sticker |-> Arg(kw, "sticker"),
     successful_payment |-> Arg(kw, "successful_payment"), text |-> Arg(kw, "text"),
     video |-> Arg(kw, "video"), voice |-> Arg(kw, "voice")]

\* attachment with the photos tried before the video
attachment_photos_first(msg) ==
    LET a == PyOr(msg.photos, PyOr(msg.video, PyOr(msg.audio,
                  PyOr(msg.animation, PyOr(msg.voice, msg.document)))))
    IN  IF ~Truthy(a) THEN None ELSE a

\* Message.attachment
attachment(msg) ==
    LET a == PyOr(msg.video, PyOr(msg.photos, PyOr(msg.audio,
                  PyOr(msg.animation, PyOr(msg.voice, msg.document)))))
    IN  IF ~Truthy(a) THEN None ELSE a

\* Message.content
content(msg) == PyOr(msg.caption, msg.text)

\* Message.author, an alias of from_user
author(msg) == msg.from_user

\* Message.chat_id handing back the absent chat itself
chat_id_falsy(msg) == IF ~Truthy(msg.chat) THEN msg.chat ELSE msg.chat.id

\* Message.chat_id
chat_id(msg) == IF ~Truthy(msg.chat) THEN None ELSE msg.chat.id

\* Message.reply_to_message_id
reply_to_message_id(msg) ==
    IF ~Truthy(msg.reply_to_message) THEN None ELSE msg.reply_to_message.message_id

MessageConstruct(m, bot, n) ==
    IF ~(MessageRequired \subseteq DOMAIN m)
    THEN Raise("TypeError", n)
    ELSE Ret(set_bot(MessageInit(Restrict(m, MessageParams)), bot), n + 1)

\* [Cls.from_dict(x, bot) for x in l] for a sibling class
SiblingList(cls, l, bot) ==
    [i \in 1..Len(l) |-> SiblingFromDict(cls, l[i], bot).val]
SiblingListMade(l) == Cardinality({i \in 1..Len(l) : parse_data(l[i]) # None})

\* a decoded list kept as it is, empty or not
CollapseEmptyKeep(l) == l

\* `[...] or None`: an empty decoded list becomes None
CollapseEmpty(l) == PyOr(l, None)

\* the assignments of Message.from_dict after reply_to_message: none of them
\* raises unless photo or new_chat_members is not a list
MessageFromDictTail(m, bot, n) ==
    LET photo == GetOr(m, "photo", ListV(<<>>))
        members == GetOr(m, "new_chat_members", ListV(<<>>))
    IN
    IF photo.kind # "list" THEN Raise("TypeError", n)
    ELSE
    LET m1 == Put(Put(Del(Del(m, "edit_date"), "photo"),
                      "edit_date", parse_time(Get(m, "edit_date"))),
                  "photos", ListV(SiblingList("PhotoSize", photo.l, bot)))
        n1 == n + SiblingListMade(photo.l)
        document == SiblingFromDict("Document", Get(m1, "document"), bot)
        audio == SiblingFromDict("Audio", Get(m1, "audio"), bot)
        voice == SiblingFromDict("Voice", Get(m1, "voice"), bot)
        location == SiblingFromDict("Location", Get(m1, "location"), bot)
        n2 == n1 + document.made + audio.made + voice.made + location.made
        contact == ContactFromDict(Get(m1, "contact"), bot)
    IN
    IF contact.err # "none" THEN Raise(contact.err, n2)
    ELSE
    LET animation == SiblingFromDict("Animation", Get(m1, "animation"), bot)
        payment == SiblingFromDict("SuccessfulPayment", Get(m1, "successful_payment"), bot)
        sticker == SiblingFromDict("Sticker", Get(m1, "sticker"), bot)
        invoice == SiblingFromDict("Invoice", Get(m1, "invoice"), bot)
        n3 == n2 + contact.made + animation.made + payment.made + sticker.made
                 + invoice.made
    IN
    IF members.kind # "list" THEN Raise("TypeError", n3)
    ELSE
    LET users == ListV(SiblingList("User", members.l, bot))
        left == SiblingFromDict("User", Get(m1, "left_chat_member"), bot)
        m2 == [k \in DOMAIN m1 \cup
                     {"document", "audio", "voice", "location", "contact",
                      "animation", "successful_payment", "sticker", "invoice",
                      "new_chat_members", "left_chat_member"} |->
                 CASE k = "document" -> document.val
                   [] k = "audio" -> audio.val
                   [] k = "voice" -> voice.val
                   [] k = "location" -> location.val
                   [] k = "contact" -> contact.val
                   [] k = "animation" -> animation.val
                   [] k = "successful_payment" -> payment.val
                   [] k = "sticker" -> sticker.val
                   [] k = "invoice" -> invoice.val
                   [] k = "new_chat_members" -> CollapseEmpty(users)
                   [] k = "left_chat_member" -> left.val
                   [] OTHER -> m1[k]]
    IN  MessageConstruct(m2, bot, n3 + SiblingListMade(members.l) + left.made)

\* the sender decoded from the payload key from_user instead of from
SenderOfFromUser(m, bot) == SiblingFromDict("User", Get(m, "from_user"), bot)

\* User.from_dict(data.pop('from', None), bot)
SenderOf(m, bot) == SiblingFromDict("User", Get(m, "from"), bot)

\* data["from_user"] = User.from_dict(data.pop('from', None), bot): the
\* mapping after the assignment
RenameSender(m, bot) == Put(Del(m, "from"), "from_user", SenderOf(m, bot).val)

\* Message.from_dict
RECURSIVE MessageFromDict(_, _)
MessageFromDict(data, bot) ==
    LET d == parse_data(data) IN
    IF ~Truthy(d) THEN Ret(None, 0)
    ELSE
    LET m0 == Put(d.m, "date", parse_time(Get(d.m, "date")))
        sender == SenderOf(m0, bot)
        m1 == RenameSender(m0, bot)
        chat == ChatFromDict(Get(m1, "chat"), bot)
    IN
    IF chat.err # "none" THEN Raise(chat.err, sender.made + chat.made)
    ELSE
    LET fwd == SiblingFromDict("User", Get(m1, "forward_from"), bot)
        fwdchat == ChatFromDict(Get(m1, "forward_from_chat"), bot)
        n1 == sender.made + chat.made + fwd.made
    IN
    IF fwdchat.err # "none" THEN Raise(fwdchat.err, n1 + fwdchat.made)
    ELSE
    LET reply == MessageFromDict(Get(m1, "reply_to_message"), bot)
        n2 == n1 + fwdchat.made + reply.made
    IN
    IF reply.err # "none" THEN Raise(reply.err, n2)
    ELSE MessageFromDictTail(
             Put(Put(Put(Put(m1, "chat", chat.val), "forward_from", fwd.val),
                     "forward_from_chat", fwdchat.val),
                 "reply_to_message", reply.val),
             bot, n2)

(***************************************************************************)
(* Error taxonomy (bale/_error.py).  A description is None or a TextV.     *)
(***************************************************************************)
UpperLetters == <<"A", "B", "C", "D", "E", "F", "G", "H", "I", "J", "K", "L",
                  "M", "N", "O", "P", "Q", "R", "S", "T", "U", "V", "W", "X",
                  "Y", "Z">>
LowerLetters == <<"a", "b", "c", "d", "e", "f", "g", "h", "i", "j", "k", "l",
                  "m", "n", "o", "p", "q", "r", "s", "t", "u", "v", "w", "x",
                  "y", "z">>
LetterIndexes == DOMAIN UpperLetters

LowerChar(c) ==
    IF \E i \in LetterIndexes : UpperLetters[i] = c
    THEN LowerLetters[CHOOSE i \in LetterIndexes : UpperLetters[i] = c]
    ELSE c
UpperChar(c) ==
    IF \E i \in LetterIndexes : LowerLetters[i] = c
    THEN UpperLetters[CHOOSE i \in LetterIndexes : LowerLetters[i] = c]
    ELSE c

\* str.lower()
Lower(str) == [i \in 1..Len(str) |-> LowerChar(str[i])]
\* sub in str
Contains(sub, str) ==
    \E i \in 0..(Len(str) - Len(sub)) : SubSeq(str, i + 1, i + Len(sub)) = sub
\* str.startswith(prefix)
StartsWith(str, prefix) ==
    Len(str) >= Len(prefix) /\ SubSeq(str, 1, Len(prefix)) = prefix

\* HTTPClientError.USER_OR_CHAT_NOT_FOUND
USER_OR_CHAT_NOT_FOUND ==
    <<"n", "o", " ", "s", "u", "c", "h", " ", "g", "r", "o", "u", "p", " ",
      "o", "r", " ", "u", "s", "e", "r">>
\* the literals of the check_description predicates
TOKEN_NOT_FOUND_LOWER ==
    <<"t", "o", "k", "e", "n", " ", "n", "o", "t", " ", "f", "o", "u", "n",
      "d">>
FORBIDDEN_PREFIX == <<"F", "o", "r", "b", "i", "d", "d", "e", "n", ":">>
BAD_REQUEST_PREFIX == <<"B", "a", "d", " ", "R", "e", "q", "u", "e", "s", "t",
                        ":">>

\* BaleError.check_description
BaleErrorCheck(description) == BoolV(FALSE)

\* InvalidToken.check_description without the lower()
InvalidTokenCheckCaseSensitive(description) ==
    IF ~Truthy(description) THEN description
    ELSE BoolV(Contains(TOKEN_NOT_FOUND_LOWER, description.chars))

\* InvalidToken.check_description
InvalidTokenCheck(description) ==
    IF ~Truthy(description) THEN description
    ELSE BoolV(Contains(TOKEN_NOT_FOUND_LOWER, Lower(description.chars)))

\* NotFound.check_description testing a prefix instead of a substring
NotFoundCheckStartsWith(description) ==
    IF ~Truthy(description) THEN description
    ELSE BoolV(StartsWith(description.chars, USER_OR_CHAT_NOT_FOUND))

\* NotFound.check_description
NotFoundCheck(description) ==
    IF ~Truthy(description) THEN description
    ELSE BoolV(Contains(USER_OR_CHAT_NOT_FOUND, description.chars))

\* Forbidden.check_description
ForbiddenCheck(description) ==
    IF ~Truthy(description) THEN description
    ELSE BoolV(StartsWith(description.chars, FORBIDDEN_PREFIX))

\* BadRequest.check_description
BadRequestCheck(description) ==
    IF ~Truthy(description) THEN description
    ELSE BoolV(StartsWith(description.chars, BAD_REQUEST_PREFIX))

CheckDescription(cls, description) ==
    CASE cls = "InvalidToken" -> InvalidTokenCheck(description)
      [] cls = "NotFound" -> NotFoundCheck(description)
      [] cls = "Forbidden" -> ForbiddenCheck(description)
      [] cls = "BadRequest" -> BadRequestCheck(description)
      [] OTHER -> BaleErrorCheck(description)

\* __ERROR_CLASSES__
ERROR_CLASSES == <<"BaleError", "InvalidToken", "APIError", "NetworkError", "TimeOut",
                   "NotFound", "Forbidden", "BadRequest", "RateLimited",
                   "HTTPException">>

\* the order in which the kinds' predicates are tried on a description
ClassifyOrder == <<"InvalidToken", "NotFound", "Forbidden", "BadRequest">>

\* the kind a description is classified as: the first kind of ClassifyOrder
\* whose predicate matches, else the generic kind
Classify(description) ==
    LET hits == {i \in DOMAIN ClassifyOrder :
                    Truthy(CheckDescription(ClassifyOrder[i], description))}
    IN  IF hits = {} THEN "BaleError"
        ELSE ClassifyOrder[CHOOSE i \in hits : \A j \in hits : i <= j]

\* BaleError.__init__: the error carries the message it is given
BaleErrorInit(message) == [kind |-> "BaleError", message |-> message]

\* STATUS_CODE with NotFound left at the inherited None
STATUS_CODE_NotFoundUnset(cls) ==
    CASE cls = "Forbidden" -> StrV("PERMISSION_DENIED")
      [] cls = "RateLimited" -> StrV("RATE_LIMIT")
      [] OTHER -> None

\* the class attribute STATUS_CODE: a member of ResponseStatusCode for three
\* kinds, the None inherited from BaleError for the others
STATUS_CODE(cls) ==
    CASE cls = "NotFound" -> StrV("NOT_FOUND")
      [] cls = "Forbidden" -> StrV("PERMISSION_DENIED")
      [] cls = "RateLimited" -> StrV("RATE_LIMIT")
      [] OTHER -> None

\* the HTTP status each member of ResponseStatusCode stands for
ResponseStatusCode(member) ==
    CASE member = StrV("NOT_FOUND") -> 404
      [] member = StrV("PERMISSION_DENIED") -> 403
      [] member = StrV("RATE_LIMIT") -> 429

\* the kind a response is classified as: the kind whose fixed status code is
\* the response's status when there is one, else by the description
ClassifyResponse(status, description) ==
    LET fixed == {i \in DOMAIN ERROR_CLASSES :
                     /\ STATUS_CODE(ERROR_CLASSES[i]) # None
                     /\ ResponseStatusCode(STATUS_CODE(ERROR_CLASSES[i])) = status}
    IN  IF fixed # {} THEN ERROR_CLASSES[CHOOSE i \in fixed : TRUE]
        ELSE Classify(description)
\* HTTPClientError.RATE_LIMIT, LOCAL_RATE_LIMIT and PERMISSION_DENIED
RATE_LIMIT ==
    <<"b", "o", "t", " ", "l", "i", "m", "i", "t", " ", "e", "x", "c", "e",
      "e", "d">>
LOCAL_RATE_LIMIT ==
    <<"l", "o", "c", "a", "l", "_", "r", "a", "t", "e", "_", "l", "i", "m",
      "i", "t", "e", "d">>
PERMISSION_DENIED ==
    <<"p", "e", "r", "m", "i", "s", "s", "i", "o", "n", "_", "d", "e", "n",
      "i", "e", "d">>

\* BaleError.check_response, the static method every kind inherits: it names
\* BaleError.check_description, whatever the class it is called on
check_response_dispatch(cls, response) ==
    IF response = None THEN Raise("AttributeError", 0)
    ELSE Ret(CheckDescription(cls, response.description), 0)

check_response(cls, response) ==
    IF response = None THEN Raise("AttributeError", 0)
    ELSE Ret(BaleErrorCheck(response.description), 0)

\* str(n) of a natural number, and the text an f-string puts for a value
DigitChars == <<"0", "1", "2", "3", "4", "5", "6", "7", "8", "9">>
RECURSIVE IntStr(_)
IntStr(n) ==
    IF n < 10 THEN <<DigitChars[n + 1]>>
    ELSE IntStr(n \div 10) \o <<DigitChars[(n % 10) + 1]>>
Format(v) ==
    CASE v.kind = "int" -> IntStr(v.n)
      [] v.kind = "text" -> v.chars
      [] v.kind = "None" -> <<"N", "o", "n", "e">>

\* the messages the constructors put themselves
INVALID_TOKEN_MESSAGE ==
    <<"I", "n", "v", "a", "l", "i", "d", " ", "T", "o", "k", "e", "n">>
NOT_FOUND_MESSAGE ==
    <<"N", "o", "t", " ", "F", "o", "u", "n", "d">>
TIME_OUT_MESSAGE ==
    <<"T", "i", "m", "e", " ", "O", "u", "t">>
RATE_LIMITED_MESSAGE ==
    <<"W", "e", " ", "a", "r", "e", " ", "R", "a", "t", "e", " ", "L", "i",
      "m", "i", "t", "e", "d">>

\* the number of positional arguments each kind's __init__ accepts
\* (NetworkError inherits BaleError.__init__)
MinArgs(cls) ==
    CASE cls \in {"InvalidToken", "NotFound", "Forbidden", "TimeOut", "RateLimited"} -> 0
      [] cls = "APIError" -> 2
      [] OTHER -> 1
MaxArgs(cls) ==
    CASE cls \in {"TimeOut", "RateLimited"} -> 0
      [] cls = "APIError" -> 2
      [] OTHER -> 1

\* the message each kind's __init__ hands to BaleError.__init__
MessageOf(cls, args) ==
    CASE cls = "InvalidToken" ->
             PyOr(IF args = <<>> THEN None ELSE args[1], TextV(INVALID_TOKEN_MESSAGE))
      [] cls = "NotFound" ->
             PyOr(IF args = <<>> THEN None ELSE args[1], TextV(NOT_FOUND_MESSAGE))
      [] cls = "Forbidden" -> IF args = <<>> THEN None ELSE args[1]
      [] cls = "APIError" ->
             TextV(Format(args[1]) \o <<":", " ">> \o Format(args[2]))
      [] cls = "TimeOut" -> TextV(TIME_OUT_MESSAGE)
      [] cls = "RateLimited" -> TextV(RATE_LIMITED_MESSAGE)
      [] OTHER -> args[1]

\* cls(*args): TypeError when the arguments do not fit the signature
ErrorInit(cls, args) ==
    IF Len(args) < MinArgs(cls) \/ Len(args) > MaxArgs(cls)
    THEN Raise("TypeError", 0)
    ELSE Ret([BaleErrorInit(MessageOf(cls, args)) EXCEPT !.kind = cls], 0)

\* BaleError.__reduce__: the class and the one-element tuple of the message
reduce(e) == <<e.kind, <<e.message>>>>

\* the error rebuilt from e.__reduce__(), as copy and pickle do
Rebuild(e) == ErrorInit(reduce(e)[1], reduce(e)[2])

(***************************************************************************)
(* The standalone Chat of the older package (balebot/chat.py).             *)
(***************************************************************************)
\* Message.dict and Message.to_dict of the same package
BalebotMessageDict(data, bot) ==
    [bot |-> bot, fields |-> data.m, kind |-> "balebot.Message"]
BalebotMessageToDict(msg) == DictV(msg.fields)

\* Chat.__init__: all_members_are_administrators is accepted and dropped
BalebotChatInit(kw) ==
    [bot |-> kw["bot"], first_name |-> kw["first_name"], id |-> kw["id"],
     kind |-> "balebot.Chat", last_name |-> kw["last_name"],
     pinned_message |-> kw["pinned_message"], title |-> kw["title"],
     type |-> kw["type"], username |-> kw["username"]]

\* Chat.dict: data["pinned_message"] is read whether or not the key is there
BalebotChatDict(data, bot) ==
    IF data.kind # "dict" THEN Raise("TypeError", 0)
    ELSE IF "pinned_message" \notin DOMAIN data.m THEN Raise("KeyError", 0)
    ELSE LET given == data.m["pinned_message"]
             pinned == IF given.kind = "list"
                       THEN [i \in DOMAIN given.l |->
                                BalebotMessageDict(given.l[i], bot)]
                       ELSE <<>>
         IN  Ret(BalebotChatInit(
                     [all_members_are_administrators |->
                          GetOr(data.m, "all_members_are_administrators", BoolV(TRUE)),
                      bot |-> bot, first_name |-> Get(data.m, "first_name"),
                      id |-> Get(data.m, "id"), last_name |-> Get(data.m, "last_name"),
                      pinned_message |-> ListV(pinned), title |-> Get(data.m, "title"),
                      type |-> Get(data.m, "type"),
                      username |-> Get(data.m, "username")]), 1)

\* the body of Chat.to_dict from its second statement on, data being the
\* local mapping it reads pinned_message from
BalebotToDictFrom(self, data) ==
    IF "pinned_message" \notin DOMAIN data THEN Raise("KeyError", 0)
    ELSE LET given == data["pinned_message"]
             pinned == IF given.kind = "list"
                       THEN [i \in DOMAIN given.l |->
                                IF given.l[i].kind = "balebot.Message"
                                THEN BalebotMessageToDict(given.l[i])
                                ELSE given.l[i]]
                       ELSE <<>>
         IN  Ret(DictV([first_name |-> self.first_name, id |-> self.id,
                        last_name |-> self.last_name,
                        pinned_message |-> ListV(pinned), title |-> self.title,
                        type |-> self.type, username |-> self.username]), 0)

\* Chat.to_dict reading the pinned messages of self
BalebotChatToDictOfSelf(self) ==
    BalebotToDictFrom(self, [pinned_message |-> self.pinned_message])

\* Chat.to_dict: data = {} and then data["pinned_message"]
BalebotChatToDict(self) == BalebotToDictFrom(self, EmptyMap)

(***************************************************************************)
(* Inputs: the payloads and constructor arguments the operations are       *)
(* applied to.                                                             *)
(***************************************************************************)
\* marks a key left out of a generated payload
Absent == [kind |-> "absent"]
MkMap(f) == [k \in {x \in DOMAIN f : f[x] # Absent} |-> f[k]]
MkDict(f) == DictV(MkMap(f))
\* the union of two mappings with disjoint keys
Merge(f, g) == [k \in DOMAIN f \cup DOMAIN g |-> IF k \in DOMAIN f THEN f[k] ELSE g[k]]

Ids == {IntV(i) : i \in 1..MaxId}
EmptyDict == DictV(EmptyMap)
TheBot == [kind |-> "Bot"]

PhotoPayload == DictV([big_file_id |-> StrV("b"), small_file_id |-> StrV("s")])
UserPayload(id) == DictV([first_name |-> StrV("u"), id |-> id])
FilePayload == DictV([file_id |-> StrV("f"), file_unique_id |-> StrV("fu")])
VideoPayload ==
    DictV([duration |-> IntV(1), file_id |-> StrV("f"),
           file_unique_id |-> StrV("fu"), height |-> IntV(1), width |-> IntV(1)])

ChatPayloads ==
    {None, EmptyDict} \cup
    {MkDict(f) : f \in [id : Ids, photo : {PhotoPayload, EmptyDict, Absent},
                        title : {StrV("title"), Absent},
                        type : {StrV(PRIVATE), StrV(GROUP), StrV(CHANNEL),
                                StrV("supergroup")}]} \cup
    \* id or type left out
    {DictV([type |-> StrV(GROUP)]), DictV([id |-> IntV(1)]),
     DictV([title |-> StrV("title")]),
     DictV([id |-> IntV(1), photo |-> PhotoPayload, title |-> StrV("title")])}

ChatMemberPayloads ==
    {None, EmptyDict} \cup
    {MkDict(f) : f \in [can_change_info : {BoolV(TRUE), BoolV(FALSE), Absent},
                        status : {StrV(OWNER), StrV(ADMIN), StrV(MEMBER), StrV("left")},
                        user : {UserPayload(i) : i \in Ids}]} \cup
    \* status or user left out
    {DictV([status |-> StrV(MEMBER)]), DictV([user |-> UserPayload(IntV(1))]),
     DictV([status |-> StrV(ADMIN), user |-> EmptyDict]),
     DictV([can_change_info |-> BoolV(TRUE)])}

\* the smallest complete Message payload
MinMessage(id) == [date |-> IntV(7), message_id |-> id]

\* a reply chain of n nested messages
RECURSIVE ReplyChain(_)
ReplyChain(n) ==
    IF n = 0 THEN Absent
    ELSE DictV(MkMap(Merge(MinMessage(IntV(((n - 1) % MaxId) + 1)),
                           [reply_to_message |-> ReplyChain(n - 1)])))

AttachmentKeys == {"video", "photo", "audio", "animation", "voice", "document"}
AttachmentPayload(k) ==
    CASE k = "video" -> VideoPayload
      [] k = "photo" -> ListV(<<FilePayload>>)
      [] OTHER -> FilePayload

MessagePayloads ==
    {None, EmptyDict} \cup
    \* every combination of attachments
    {DictV(Merge(MinMessage(IntV(1)), [k \in S |-> AttachmentPayload(k)])) :
        S \in SUBSET AttachmentKeys} \cup
    {DictV(Merge(MinMessage(IntV(1)), f)) :
        f \in {[photo |-> ListV(<<>>)], [video |-> EmptyDict], [document |-> None],
               [photo |-> None], [new_chat_members |-> ListV(<<>>)],
               [new_chat_members |-> ListV(<<UserPayload(IntV(1))>>)],
               [new_chat_members |-> ListV(<<UserPayload(IntV(1)), EmptyDict>>)],
               [contact |-> DictV([first_name |-> StrV("c"),
                                   phone_number |-> StrV("98")])],
               [contact |-> DictV([first_name |-> StrV("c")])]}} \cup
    \* text and caption
    {MkDict(Merge(MinMessage(IntV(1)), f)) :
        f \in [caption : {StrV("caption"), None, Absent},
               text : {StrV("text"), StrV(""), None, Absent}]} \cup
    \* nested entities and reply chains
    {MkDict(Merge(MinMessage(IntV(1)), f)) :
        f \in [chat : {DictV([id |-> IntV(1), type |-> StrV(PRIVATE)]),
                       EmptyDict, Absent},
               from : {UserPayload(IntV(1)), Absent},
               reply_to_message : {ReplyChain(n) : n \in 0..MaxDepth}]} \cup
    \* a sender under the wire key from, under the entity's name from_user, both
    {MkDict(Merge(MinMessage(IntV(1)), f)) :
        f \in [from : {UserPayload(IntV(1)), None, Absent},
               from_user : {UserPayload(IntV(2)), Absent}]} \cup
    \* messages of several chats
    {DictV(Merge(MinMessage(i), [chat |-> DictV([id |-> j, type |-> StrV(GROUP)])])) :
        i \in Ids, j \in Ids} \cup
    \* required fields left out, here or in a nested payload
    {DictV([text |-> StrV("text")]), DictV([message_id |-> IntV(1)]),
     DictV([date |-> IntV(7)]),
     DictV(Merge(MinMessage(IntV(1)), [chat |-> DictV([type |-> StrV(GROUP)])]))}

ContactPayloads ==
    {None, EmptyDict} \cup
    {MkDict(f) : f \in [first_name : {StrV("c")}, last_name : {StrV("l"), Absent},
                        phone_number : {StrV("98")}, user_id : Ids \cup {Absent}]} \cup
    {DictV([first_name |-> StrV("c")]), DictV([user_id |-> IntV(1)])}

VideoPayloads ==
    {None, EmptyDict, FilePayload} \cup
    {DictV(Merge(VideoPayload.m, MkMap(f))) :
        f \in [file_name : {StrV("v.mp4"), Absent}, file_size : {IntV(1), Absent}]}

\* keyword arguments of direct constructor calls Message(...)
SiblingObj(cls) == SiblingFromDict(cls, FilePayload, None).val
AttachmentFields == {"video", "photos", "audio", "animation", "voice", "document"}
AttachmentObj(k) ==
    CASE k = "video" -> VideoInit(VideoPayload.m)
      [] k = "photos" -> ListV(<<SiblingObj("PhotoSize")>>)
      [] k = "audio" -> SiblingObj("Audio")
      [] k = "animation" -> SiblingObj("Animation")
      [] k = "voice" -> SiblingObj("Voice")
      [] k = "document" -> SiblingObj("Document")
NewMessageArgs ==
    {Merge([date |-> DateV(7), message_id |-> IntV(1)],
           [k \in S |-> AttachmentObj(k)]) : S \in SUBSET AttachmentFields} \cup
    {Merge([date |-> DateV(7), message_id |-> IntV(1)], MkMap(f)) :
        f \in [caption : {StrV("caption"), None, Absent},
               photos : {ListV(<<>>), Absent}, text : {StrV("text"), None, Absent}]}

\* descriptions the server may send
Prefixes == {<<>>, BAD_REQUEST_PREFIX \o <<" ">>, FORBIDDEN_PREFIX \o <<" ">>}
\* the positions of "token not found" written in upper case
CaseMasks ==
    {{}, DOMAIN TOKEN_NOT_FOUND_LOWER} \cup {{i} : i \in DOMAIN TOKEN_NOT_FOUND_LOWER}
UpperAt(str, mask) ==
    [i \in 1..Len(str) |-> IF i \in mask THEN UpperChar(str[i]) ELSE str[i]]
FORBIDDEN_BLOCKED ==
    <<"F", "o", "r", "b", "i", "d", "d", "e", "n", ":", " ", "b", "o", "t",
      " ", "w", "a", "s", " ", "b", "l", "o", "c", "k", "e", "d">>
BAD_REQUEST_INVALID_ID ==
    <<"B", "a", "d", " ", "R", "e", "q", "u", "e", "s", "t", ":", " ", "i",
      "n", "v", "a", "l", "i", "d", " ", "i", "d">>
FORBIDDEN_NO_SUCH_USER ==
    <<"F", "o", "r", "b", "i", "d", "d", "e", "n", ":", " ", "n", "o", " ",
      "s", "u", "c", "h", " ", "g", "r", "o", "u", "p", " ", "o", "r", " ",
      "u", "s", "e", "r">>
LOWER_BAD_REQUEST ==
    <<"b", "a", "d", " ", "r", "e", "q", "u", "e", "s", "t", ":", " ", "x">>
INTERNAL_ERROR ==
    <<"I", "n", "t", "e", "r", "n", "a", "l", " ", "e", "r", "r", "o", "r">>
TOKEN_NOT__FOUND ==
    <<"t", "o", "k", "e", "n", " ", "n", "o", "t", " ", " ", "f", "o", "u",
      "n", "d">>
BAD_REQUEST_TOKEN ==
    <<"B", "a", "d", " ", "R", "e", "q", "u", "e", "s", "t", ":", " ", "T",
      "o", "k", "e", "n", " ", "n", "o", "t", " ", "f", "o", "u", "n", "d">>
Descriptions ==
    {None, TextV(<<>>)} \cup
    {TextV(d) : d \in {FORBIDDEN_BLOCKED, BAD_REQUEST_INVALID_ID, USER_OR_CHAT_NOT_FOUND,
                       FORBIDDEN_NO_SUCH_USER, LOWER_BAD_REQUEST, INTERNAL_ERROR,
                       TOKEN_NOT__FOUND, BAD_REQUEST_TOKEN}} \cup
    {TextV(p \o UpperAt(TOKEN_NOT_FOUND_LOWER, mask) \o q) :
        p \in Prefixes, mask \in CaseMasks, q \in {<<>>, <<"!">>}}

(***************************************************************************)
(* State: the objects the caller holds, and the last operation's outcome.  *)
(***************************************************************************)
Slots == {"a", "b"}
\* the callers; pending[c] is the call of caller c the client has not yet
\* answered, None when c has none in flight
Callers == 1..MaxCallers

\* sent is the sequence of calls made on the client
Outcome(op, arg, r) ==
    [arg |-> arg, err |-> r.err, made |-> r.made, op |-> op, ret |-> r.val,
     sent |-> <<>>]

Init ==
    /\ heap = [s \in Slots |-> None]
    /\ last = Outcome("init", None, Ret(None, 0))
    /\ pending = [c \in Callers |-> None]

\* x = f(...): the name x is bound to the result unless the call raises
Bind(s, r) == IF r.err = "none" THEN [heap EXCEPT ![s] = r.val] ELSE heap

\* x = Chat.from_dict(data, bot), for a name x not yet bound
ChatFromDictStep(s, payloads) ==
    /\ heap[s] = None
    /\ \E data \in payloads :
          /\ UNCHANGED pending
          /\ heap' = Bind(s, ChatFromDict(data, TheBot))
          /\ last' = Outcome("Chat.from_dict", data, ChatFromDict(data, TheBot))

ChatMemberFromDictStep(s, payloads) ==
    /\ heap[s] = None
    /\ \E data \in payloads :
          /\ UNCHANGED pending
          /\ heap' = Bind(s, ChatMemberFromDict(data, TheBot))
          /\ last' = Outcome("ChatMember.from_dict", data,
                             ChatMemberFromDict(data, TheBot))

MessageFromDictStep(s, payloads) ==
    /\ heap[s] = None
    /\ \E data \in payloads :
          /\ UNCHANGED pending
          /\ heap' = Bind(s, MessageFromDict(data, TheBot))
          /\ last' = Outcome("Message.from_dict", data, MessageFromDict(data, TheBot))

ContactFromDictStep(s) ==
    /\ heap[s] = None
    /\ \E data \in ContactPayloads :
          /\ UNCHANGED pending
          /\ heap' = Bind(s, ContactFromDict(data, TheBot))
          /\ last' = Outcome("Contact.from_dict", data, ContactFromDict(data, TheBot))

VideoFromDictStep(s) ==
    /\ heap[s] = None
    /\ \E data \in VideoPayloads :
          /\ UNCHANGED pending
          /\ heap' = Bind(s, VideoFromDict(data, TheBot))
          /\ last' = Outcome("Video.from_dict", data, VideoFromDict(data, TheBot))

\* x = Message(message_id, date, ...), called directly
NewMessageStep(s, arguments) ==
    /\ heap[s] = None
    /\ \E kw \in arguments :
          /\ UNCHANGED pending
          /\ heap' = Bind(s, Ret(MessageInit(kw), 1))
          /\ last' = Outcome("Message", DictV(kw), Ret(MessageInit(kw), 1))

\* x = Chat(chat_id, chat_type), called directly
NewChatStep(s) ==
    /\ heap[s] = None
    /\ \E kw \in [chat_id : Ids, chat_type : {StrV(GROUP)}] :
          /\ UNCHANGED pending
          /\ heap' = Bind(s, Ret(ChatInit(kw), 1))
          /\ last' = Outcome("Chat", DictV(kw), Ret(ChatInit(kw), 1))

\* the public fields of an object
Fields(obj) == DOMAIN obj \ {"kind", "_id", "_locked"}

\* x.f = v on a held object
SetAttrStep(s) ==
    /\ IsEntity(heap[s])
    /\ \E f \in Fields(heap[s]), v \in {StrV("changed")} :
          /\ UNCHANGED pending
          /\ heap' = [heap EXCEPT ![s] = SetAttrObj(heap[s], f, v)]
          /\ last' = Outcome("setattr", StrV(f), [err |-> SetAttrErr(heap[s]),
                                                  made |-> 0, val |-> None])

AccessorsOf(kind) ==
    CASE kind = "Chat" -> {"is_private_chat", "is_group_chat", "is_channel_chat"}
      [] kind = "ChatMember" -> {"is_owner", "is_admin"}
      [] kind = "Message" -> {"attachment", "content", "chat_id", "reply_to_message_id",
                              "author"}
      [] OTHER -> {}

Access(obj, name) ==
    CASE name = "is_private_chat" -> BoolV(is_private_chat(obj))
      [] name = "is_group_chat" -> BoolV(is_group_chat(obj))
      [] name = "is_channel_chat" -> BoolV(is_channel_chat(obj))
      [] name = "is_owner" -> BoolV(is_owner(obj))
      [] name = "is_admin" -> BoolV(is_admin(obj))
      [] name = "attachment" -> attachment(obj)
      [] name = "content" -> content(obj)
      [] name = "author" -> author(obj)
      [] name = "chat_id" -> chat_id(obj)
      [] name = "reply_to_message_id" -> reply_to_message_id(obj)

\* a property answering from the previous read of the same property, whatever
\* the object read then
ReadPropertyMemo(obj, name, previous) ==
    IF previous.op = name THEN previous.ret ELSE Access(obj, name)

\* obj.name for a property: its body is evaluated on self at every read,
\* nothing is kept from the previous read
ReadProperty(obj, name, previous) == Access(obj, name)

\* reading a derived accessor of a held object
AccessorStep(s) ==
    /\ \E name \in AccessorsOf(heap[s].kind) :
          /\ last' = Outcome(name, StrV(s), Ret(ReadProperty(heap[s], name, last), 0))
          /\ UNCHANGED <<heap, pending>>

\* BaleObject.get_bot: the client of the object, an error when it has none
get_bot(obj) == IF obj.bot = None THEN Raise("RuntimeError", 0) ELSE Ret(obj.bot, 0)

\* the shortcut methods of each class
DelegationsOf(kind) ==
    CASE kind = "Chat" ->
            {"Chat.send", "Chat.send_document", "Chat.send_photo",
             "Chat.send_video", "Chat.send_animation", "Chat.send_audio",
             "Chat.send_location", "Chat.send_contact", "Chat.send_invoice",
             "Chat.copy_message", "Chat.send_sticker", "Chat.send_media_group",
             "Chat.leave", "Chat.add_user", "Chat.get_member",
             "Chat.ban_member", "Chat.unban_member", "Chat.set_photo",
             "Chat.get_members_count", "Chat.get_administrators"}
      [] kind = "Message" ->
            {"Message.reply", "Message.forward", "Message.reply_document",
             "Message.reply_photo", "Message.reply_sticker",
             "Message.reply_video", "Message.reply_animation",
             "Message.reply_audio", "Message.reply_location",
             "Message.reply_contact", "Message.reply_media_group",
             "Message.copy", "Message.edit", "Message.edit_caption",
             "Message.delete"}
      [] OTHER -> {}

\* the client operation each shortcut method awaits
Capability(name) ==
    CASE name = "Chat.send" -> "send_message"
      [] name = "Chat.send_document" -> "send_document"
      [] name = "Chat.send_photo" -> "send_photo"
      [] name = "Chat.send_video" -> "send_video"
      [] name = "Chat.send_animation" -> "send_animation"
      [] name = "Chat.send_audio" -> "send_audio"
      [] name = "Chat.send_location" -> "send_location"
      [] name = "Chat.send_contact" -> "send_contact"
      [] name = "Chat.send_invoice" -> "send_invoice"
      [] name = "Chat.copy_message" -> "copy_message"
      [] name = "Chat.send_sticker" -> "send_sticker"
      [] name = "Chat.send_media_group" -> "send_media_group"
      [] name = "Chat.leave" -> "leave_chat"
      [] name = "Chat.add_user" -> "invite_user"
      [] name = "Chat.get_member" -> "get_chat_member"
      [] name = "Chat.ban_member" -> "ban_chat_member"
      [] name = "Chat.unban_member" -> "unban_chat_member"
      [] name = "Chat.set_photo" -> "set_chat_photo"
      [] name = "Chat.get_members_count" -> "get_chat_members_count"
      [] name = "Chat.get_administrators" -> "get_chat_administrators"
      [] name = "Message.reply" -> "send_message"
      [] name = "Message.forward" -> "forward_message"
      [] name = "Message.reply_document" -> "send_document"
      [] name = "Message.reply_photo" -> "send_photo"
      [] name = "Message.reply_sticker" -> "send_sticker"
      [] name = "Message.reply_video" -> "send_video"
      [] name = "Message.reply_animation" -> "send_animation"
      [] name = "Message.reply_audio" -> "send_audio"
      [] name = "Message.reply_location" -> "send_location"
      [] name = "Message.reply_contact" -> "send_contact"
      [] name = "Message.reply_media_group" -> "send_media_group"
      [] name = "Message.copy" -> "copy_message"
      [] name = "Message.edit" -> "edit_message"
      [] name = "Message.edit_caption" -> "edit_message_caption"
      [] name = "Message.delete" -> "delete_message"

\* the parameters without a default, in order
RequiredParams(name) ==
    CASE name = "Chat.send" -> <<"text">>
      [] name = "Chat.send_document" -> <<"document">>
      [] name = "Chat.send_photo" -> <<"photo">>
      [] name = "Chat.send_video" -> <<"video">>
      [] name = "Chat.send_animation" -> <<"animation">>
      [] name = "Chat.send_audio" -> <<"audio">>
      [] name = "Chat.send_location" -> <<"location">>
      [] name = "Chat.send_contact" -> <<"contact">>
      [] name = "Chat.send_invoice" -> <<"title", "description", "provider_token", "prices">>
      [] name = "Chat.copy_message" -> <<"chat_id", "message_id">>
      [] name = "Chat.send_sticker" -> <<"sticker">>
      [] name = "Chat.send_media_group" -> <<"media">>
      [] name = "Chat.leave" -> <<>>
      [] name = "Chat.add_user" -> <<"user">>
      [] name = "Chat.get_member" -> <<"user">>
      [] name = "Chat.ban_member" -> <<"user">>
      [] name = "Chat.unban_member" -> <<"user">>
      [] name = "Chat.set_photo" -> <<"photo">>
      [] name = "Chat.get_members_count" -> <<>>
      [] name = "Chat.get_administrators" -> <<>>
      [] name = "Message.reply" -> <<"text">>
      [] name = "Message.forward" -> <<"chat_id">>
      [] name = "Message.reply_document" -> <<"document">>
      [] name = "Message.reply_photo" -> <<"photo">>
      [] name = "Message.reply_sticker" -> <<"sticker">>
      [] name = "Message.reply_video" -> <<"video">>
      [] name = "Message.reply_animation" -> <<"animation">>
      [] name = "Message.reply_audio" -> <<"audio">>
      [] name = "Message.reply_location" -> <<"location">>
      [] name = "Message.reply_contact" -> <<"contact">>
      [] name = "Message.reply_media_group" -> <<"media">>
      [] name = "Message.copy" -> <<"chat_id">>
      [] name = "Message.edit" -> <<"text">>
      [] name = "Message.edit_caption" -> <<"caption">>
      [] name = "Message.delete" -> <<>>

\* the parameters with a default, as <<parameter, default>>
OptionalDefaults(name) ==
    CASE name = "Chat.send" ->
            {<<"components", MissingValue>>, <<"delete_after", None>>}
      [] name = "Chat.send_document" ->
            {<<"caption", MissingValue>>, <<"components", MissingValue>>,
             <<"delete_after", None>>, <<"file_name", None>>}
      [] name = "Chat.send_photo" ->
            {<<"caption", MissingValue>>, <<"components", MissingValue>>,
             <<"delete_after", None>>, <<"file_name", None>>}
      [] name = "Chat.send_video" ->
            {<<"caption", MissingValue>>, <<"components", MissingValue>>,
             <<"delete_after", None>>, <<"file_name", None>>}
      [] name = "Chat.send_animation" ->
            {<<"duration", MissingValue>>, <<"width", MissingValue>>,
             <<"height", MissingValue>>, <<"caption", MissingValue>>,
             <<"components", MissingValue>>, <<"delete_after", None>>,
             <<"file_name", None>>}
      [] name = "Chat.send_audio" ->
            {<<"caption", MissingValue>>, <<"components", MissingValue>>,
             <<"delete_after", None>>, <<"file_name", None>>}
      [] name = "Chat.send_location" ->
            {<<"delete_after", None>>}
      [] name = "Chat.send_contact" ->
            {<<"delete_after", None>>}
      [] name = "Chat.send_invoice" ->
            {<<"payload", MissingValue>>, <<"photo_url", MissingValue>>,
             <<"need_name", MissingValue>>,
             <<"need_phone_number", MissingValue>>,
             <<"need_email", MissingValue>>,
             <<"need_shipping_address", MissingValue>>,
             <<"is_flexible", MissingValue>>, <<"delete_after", None>>}
      [] name = "Chat.copy_message" ->
            {<<"reply_to_message_id", MissingValue>>, <<"delete_after", None>>}
      [] name = "Chat.send_sticker" ->
            {<<"delete_after", None>>}
      [] name = "Chat.send_media_group" ->
            {<<"components", MissingValue>>}
      [] name = "Chat.leave" ->
            {}
      [] name = "Chat.add_user" ->
            {}
      [] name = "Chat.get_member" ->
            {}
      [] name = "Chat.ban_member" ->
            {}
      [] name = "Chat.unban_member" ->
            {<<"only_if_banned", None>>}
      [] name = "Chat.set_photo" ->
            {}
      [] name = "Chat.get_members_count" ->
            {}
      [] name = "Chat.get_administrators" ->
            {}
      [] name = "Message.reply" ->
            {<<"components", MissingValue>>, <<"delete_after", None>>}
      [] name = "Message.forward" ->
            {}
      [] name = "Message.reply_document" ->
            {<<"caption", MissingValue>>, <<"components", MissingValue>>,
             <<"delete_after", None>>, <<"file_name", None>>}
      [] name = "Message.reply_photo" ->
            {<<"caption", MissingValue>>, <<"components", MissingValue>>,
             <<"delete_after", None>>, <<"file_name", None>>}
      [] name = "Message.reply_sticker" ->
            {<<"delete_after", None>>}
      [] name = "Message.reply_video" ->
            {<<"caption", MissingValue>>, <<"components", MissingValue>>,
             <<"delete_after", None>>, <<"file_name", None>>}
      [] name = "Message.reply_animation" ->
            {<<"duration", MissingValue>>, <<"width", MissingValue>>,
             <<"height", MissingValue>>, <<"caption", MissingValue>>,
             <<"components", MissingValue>>, <<"delete_after", None>>,
             <<"file_name", None>>}
      [] name = "Message.reply_audio" ->
            {<<"caption", MissingValue>>, <<"components", MissingValue>>,
             <<"delete_after", None>>, <<"file_name", None>>}
      [] name = "Message.reply_location" ->
            {<<"components", MissingValue>>, <<"delete_after", None>>}
      [] name = "Message.reply_contact" ->
            {<<"components", MissingValue>>, <<"delete_after", None>>}
      [] name = "Message.reply_media_group" ->
            {<<"components", MissingValue>>}
      [] name = "Message.copy" ->
            {<<"reply_to_message_id", MissingValue>>, <<"delete_after", None>>}
      [] name = "Message.edit" ->
            {<<"components", MissingValue>>}
      [] name = "Message.edit_caption" ->
            {<<"components", MissingValue>>}
      [] name = "Message.delete" ->
            {<<"delay", None>>}

\* the positional arguments of the awaited call: an attribute of self or a
\* parameter
Positional(name) ==
    CASE name = "Chat.send" ->
            <<"self.id", "text">>
      [] name = "Chat.send_document" ->
            <<"self.id", "document">>
      [] name = "Chat.send_photo" ->
            <<"self.id", "photo">>
      [] name = "Chat.send_video" ->
            <<"self.id", "video">>
      [] name = "Chat.send_animation" ->
            <<"self.id", "animation">>
      [] name = "Chat.send_audio" ->
            <<"self.id", "audio">>
      [] name = "Chat.send_location" ->
            <<"self.id", "location">>
      [] name = "Chat.send_contact" ->
            <<"self.id", "contact">>
      [] name = "Chat.send_invoice" ->
            <<"self.id", "title", "description", "provider_token", "prices">>
      [] name = "Chat.copy_message" ->
            <<"chat_id", "self.id", "message_id">>
      [] name = "Chat.send_sticker" ->
            <<"self.id", "sticker">>
      [] name = "Chat.send_media_group" ->
            <<"self.id", "media">>
      [] name = "Chat.leave" ->
            <<"self.id">>
      [] name = "Chat.add_user" ->
            <<"self.id", "user">>
      [] name = "Chat.get_member" ->
            <<"self.id">>
      [] name = "Chat.ban_member" ->
            <<"self.id", "user">>
      [] name = "Chat.unban_member" ->
            <<"self.id", "user">>
      [] name = "Chat.set_photo" ->
            <<"self.id", "photo">>
      [] name = "Chat.get_members_count" ->
            <<"self.id">>
      [] name = "Chat.get_administrators" ->
            <<"self.id">>
      [] name = "Message.reply" ->
            <<"self.chat_id", "text">>
      [] name = "Message.forward" ->
            <<"chat_id", "self.chat_id", "self.message_id">>
      [] name = "Message.reply_document" ->
            <<"self.chat_id", "document">>
      [] name = "Message.reply_photo" ->
            <<"self.chat_id", "photo">>
      [] name = "Message.reply_sticker" ->
            <<"self.chat_id", "sticker">>
      [] name = "Message.reply_video" ->
            <<"self.chat_id", "video">>
      [] name = "Message.reply_animation" ->
            <<"self.chat_id", "animation">>
      [] name = "Message.reply_audio" ->
            <<"self.chat_id", "audio">>
      [] name = "Message.reply_location" ->
            <<"self.chat_id", "location">>
      [] name = "Message.reply_contact" ->
            <<"self.chat_id", "contact">>
      [] name = "Message.reply_media_group" ->
            <<"self.id", "media">>
      [] name = "Message.copy" ->
            <<"chat_id", "self.chat_id", "self.id">>
      [] name = "Message.edit" ->
            <<"self.chat_id", "self.message_id", "text">>
      [] name = "Message.edit_caption" ->
            <<"self.chat_id", "self.message_id", "caption">>
      [] name = "Message.delete" ->
            <<"self.chat_id", "self.message_id">>

\* the keyword arguments of the awaited call, as <<keyword, source>>
Keywords(name) ==
    CASE name = "Chat.send" ->
            {<<"components", "components">>, <<"delete_after", "delete_after">>}
      [] name = "Chat.send_document" ->
            {<<"caption", "caption">>, <<"components", "components">>,
             <<"delete_after", "delete_after">>, <<"file_name", "file_name">>}
      [] name = "Chat.send_photo" ->
            {<<"caption", "caption">>, <<"components", "components">>,
             <<"delete_after", "delete_after">>, <<"file_name", "file_name">>}
      [] name = "Chat.send_video" ->
            {<<"caption", "caption">>, <<"components", "components">>,
             <<"delete_after", "delete_after">>, <<"file_name", "file_name">>}
      [] name = "Chat.send_animation" ->
            {<<"duration", "duration">>, <<"width", "width">>,
             <<"height", "height">>, <<"caption", "caption">>,
             <<"components", "components">>,
             <<"delete_after", "delete_after">>, <<"file_name", "file_name">>}
      [] name = "Chat.send_audio" ->
            {<<"caption", "caption">>, <<"components", "components">>,
             <<"delete_after", "delete_after">>, <<"file_name", "file_name">>}
      [] name = "Chat.send_location" ->
            {<<"delete_after", "delete_after">>}
      [] name = "Chat.send_contact" ->
            {<<"delete_after", "delete_after">>}
      [] name = "Chat.send_invoice" ->
            {<<"invoice_payload", "payload">>, <<"photo_url", "photo_url">>,
             <<"need_name", "need_name">>, <<"need_email", "need_email">>,
             <<"need_phone_number", "need_phone_number">>,
             <<"need_shipping_address", "need_shipping_address">>,
             <<"is_flexible", "is_flexible">>,
             <<"delete_after", "delete_after">>}
      [] name = "Chat.copy_message" ->
            {<<"reply_to_message_id", "reply_to_message_id">>,
             <<"delete_after", "delete_after">>}
      [] name = "Chat.send_sticker" ->
            {<<"delete_after", "delete_after">>}
      [] name = "Chat.send_media_group" ->
            {<<"components", "components">>}
      [] name = "Chat.leave" ->
            {}
      [] name = "Chat.add_user" ->
            {}
      [] name = "Chat.get_member" ->
            {<<"user_id", "user">>}
      [] name = "Chat.ban_member" ->
            {}
      [] name = "Chat.unban_member" ->
            {<<"only_if_banned", "only_if_banned">>}
      [] name = "Chat.set_photo" ->
            {}
      [] name = "Chat.get_members_count" ->
            {}
      [] name = "Chat.get_administrators" ->
            {}
      [] name = "Message.reply" ->
            {<<"components", "components">>,
             <<"reply_to_message_id", "self.message_id">>,
             <<"delete_after", "delete_after">>}
      [] name = "Message.forward" ->
            {}
      [] name = "Message.reply_document" ->
            {<<"caption", "caption">>, <<"components", "components">>,
             <<"reply_to_message_id", "self.message_id">>,
             <<"delete_after", "delete_after">>, <<"file_name", "file_name">>}
      [] name = "Message.reply_photo" ->
            {<<"caption", "caption">>, <<"components", "components">>,
             <<"reply_to_message_id", "self.message_id">>,
             <<"delete_after", "delete_after">>, <<"file_name", "file_name">>}
      [] name = "Message.reply_sticker" ->
            {<<"reply_to_message_id", "self.message_id">>,
             <<"delete_after", "delete_after">>}
      [] name = "Message.reply_video" ->
            {<<"caption", "caption">>, <<"components", "components">>,
             <<"reply_to_message_id", "self.message_id">>,
             <<"delete_after", "delete_after">>, <<"file_name", "file_name">>}
      [] name = "Message.reply_animation" ->
            {<<"duration", "duration">>, <<"width", "width">>,
             <<"height", "height">>, <<"caption", "caption">>,
             <<"components", "components">>,
             <<"reply_to_message_id", "self.message_id">>,
             <<"delete_after", "delete_after">>, <<"file_name", "file_name">>}
      [] name = "Message.reply_audio" ->
            {<<"caption", "caption">>, <<"components", "components">>,
             <<"reply_to_message_id", "self.message_id">>,
             <<"delete_after", "delete_after">>, <<"file_name", "file_name">>}
      [] name = "Message.reply_location" ->
            {<<"components", "components">>,
             <<"reply_to_message_id", "self.message_id">>,
             <<"delete_after", "delete_after">>}
      [] name = "Message.reply_contact" ->
            {<<"components", "components">>,
             <<"reply_to_message_id", "self.message_id">>,
             <<"delete_after", "delete_after">>}
      [] name = "Message.reply_media_group" ->
            {<<"components", "components">>}
      [] name = "Message.copy" ->
            {<<"reply_to_message_id", "reply_to_message_id">>,
             <<"delete_after", "delete_after">>}
      [] name = "Message.edit" ->
            {<<"components", "components">>}
      [] name = "Message.edit_caption" ->
            {<<"components", "components">>}
      [] name = "Message.delete" ->
            {<<"delay", "delay">>}

\* the methods that `return await ...`; the others await and return nothing
ReturnsResult(name) ==
    name \notin {"Chat.leave", "Chat.add_user"}

\* the methods that accept a User in place of a user identifier
ResolvesUser(name) ==
    name \in {"Chat.add_user", "Chat.get_member", "Chat.ban_member",
               "Chat.unban_member"}

\* the attributes of self named in the awaited calls
SelfSources == {"self.id", "self.chat_id", "self.message_id"}

\* self.chat_id read as the message's own id
SelfValueIdAsChat(obj, src) ==
    CASE src = "self.id" -> IF obj.kind = "Message" THEN obj.message_id ELSE obj.id
      [] src = "self.chat_id" -> obj.message_id
      [] src = "self.message_id" -> obj.message_id

\* an attribute of self named in an awaited call; Message.id is an alias of
\* message_id
SelfValue(obj, src) ==
    CASE src = "self.id" -> IF obj.kind = "Message" THEN obj.message_id ELSE obj.id
      [] src = "self.chat_id" -> chat_id(obj)
      [] src = "self.message_id" -> obj.message_id

\* the user argument forwarded as it was given
ResolveUserKeep(v) == v

\* if isinstance(user, User): user = user.user_id
ResolveUser(v) == IF IsEntity(v) /\ v.kind = "User" THEN v.user_id ELSE v

RequiredSet(name) == {RequiredParams(name)[i] : i \in DOMAIN RequiredParams(name)}
OptionalSet(name) == {e[1] : e \in OptionalDefaults(name)}
DefaultOf(name, p) == (CHOOSE e \in OptionalDefaults(name) : e[1] = p)[2]

\* the method's local variables once it is called with the keyword arguments kw
BoundArgs(name, kw) ==
    [p \in RequiredSet(name) \cup OptionalSet(name) |->
        IF p \notin DOMAIN kw THEN DefaultOf(name, p)
        ELSE IF p = "user" /\ ResolvesUser(name) THEN ResolveUser(kw[p])
        ELSE kw[p]]

ArgValue(obj, args, src) ==
    IF src \in SelfSources THEN SelfValue(obj, src) ELSE args[src]

\* the call a shortcut method makes on the client: the operation, its
\* positional and its keyword arguments
Forwarded(obj, name, kw) ==
    LET args == BoundArgs(name, kw) IN
    [kind |-> "call",
     kw |-> [k \in {e[1] : e \in Keywords(name)} |->
                ArgValue(obj, args, (CHOOSE e \in Keywords(name) : e[1] = k)[2])],
     op |-> Capability(name),
     pos |-> [i \in DOMAIN Positional(name) |->
                ArgValue(obj, args, Positional(name)[i])]]

\* what the shortcut method hands back of the client's result
Returned(name, result) == IF ReturnsResult(name) THEN result ELSE None

\* a call made on the client, with what the client did: returned val or
\* raised err
Exchange(call, r) == [call |-> call, err |-> r.err, val |-> r.val]

\* the awaited call made again when it raises
IssuedCallsRetry(call, r) ==
    IF r.err # "none" THEN <<Exchange(call, r), Exchange(call, r)>>
    ELSE <<Exchange(call, r)>>

\* the awaited call is made once, whether the client returns or raises
IssuedCalls(call, r) == <<Exchange(call, r)>>

\* the calls made without looking for the client first
DelegateCallsUnchecked(obj, name, kw, r) == IssuedCalls(Forwarded(obj, name, kw), r)

\* the calls a shortcut method makes on the client, r being what the client's
\* operation does
DelegateCalls(obj, name, kw, r) ==
    IF get_bot(obj).err # "none" THEN <<>>
    ELSE IssuedCalls(Forwarded(obj, name, kw), r)

\* the outcome of the shortcut method for its caller
DelegateResult(obj, name, r) ==
    IF get_bot(obj).err # "none" THEN get_bot(obj)
    ELSE IF r.err # "none" THEN r
    ELSE Ret(Returned(name, r.val), 0)

BotResults == {StrV("result")}
\* the client's operation returns a result or raises
BotOutcomes == {Ret(v, 0) : v \in BotResults} \cup {Raise("APIError", 0)}

\* Message.edit and edit_caption putting the client's result in place of self
AfterDelegateEditInPlace(obj, name, r) ==
    IF name \in {"Message.edit", "Message.edit_caption"} /\ r.err = "none"
          /\ IsEntity(r.val)
    THEN r.val ELSE obj

\* the entity once a shortcut method has run: no method assigns to self
AfterDelegate(obj, name, r) == obj

\* the arguments callers pass: every required one, with none or all of the
\* optional ones; a user is passed as an int, a str or a User
UserArgs ==
    {IntV(MaxId), StrV("7"), SiblingFromDict("User", UserPayload(IntV(MaxId)), TheBot).val}
CallerArgs(name) ==
    UNION {{[p \in RequiredSet(name) \cup S |-> IF p = "user" THEN u ELSE StrV(p)] :
               u \in IF ResolvesUser(name) THEN UserArgs ELSE {None}} :
           S \in {{}, OptionalSet(name)}}

\* await x.method(**kw) on a held Chat or Message, for the methods given
DelegateStep(s, methods) ==
    /\ \E name \in DelegationsOf(heap[s].kind) \cap methods :
          \E kw \in CallerArgs(name), r \in BotOutcomes :
             /\ last' = [Outcome(name, TupleV(<<s, kw>>),
                                 DelegateResult(heap[s], name, r))
                            EXCEPT !.sent = DelegateCalls(heap[s], name, kw, r)]
             /\ heap' = [heap EXCEPT ![s] = AfterDelegate(heap[s], name, r)]
             /\ UNCHANGED pending

\* x == y and hash(x) == hash(y) on two held objects
EqStep(s, t) ==
    /\ IsEntity(heap[s]) /\ IsEntity(heap[t])
    /\ last' = Outcome("eq", TupleV(<<s, t>>),
                       Ret(TupleV(<<Eq(heap[s], heap[t]),
                                    Hash(heap[s]) = Hash(heap[t])>>), 0))
    /\ UNCHANGED <<heap, pending>>

\* del x: the object is discarded
DelStep(s) ==
    /\ heap[s] # None
    /\ UNCHANGED pending
    /\ heap' = [heap EXCEPT ![s] = None]
    /\ last' = Outcome("del", StrV(s), Ret(None, 0))

\* one kind's check_description applied to a description
CheckDescriptionStep(descriptions) ==
    \E i \in DOMAIN ERROR_CLASSES, description \in descriptions :
        /\ last' = Outcome(ERROR_CLASSES[i], description,
                           Ret(CheckDescription(ERROR_CLASSES[i], description), 0))
        /\ UNCHANGED <<heap, pending>>

\* a server description classified into an error kind
ClassifyStep ==
    \E description \in Descriptions :
        /\ last' = Outcome("classify", description,
                           Ret(StrV(Classify(description)), 0))
        /\ UNCHANGED <<heap, pending>>

\* the statuses and descriptions of the responses classified
Statuses == {400, 403, 404, 429, 500}
StatusDescriptions ==
    {None} \cup
    {TextV(d) : d \in {FORBIDDEN_BLOCKED, BAD_REQUEST_INVALID_ID, BAD_REQUEST_TOKEN,
                       FORBIDDEN_NO_SUCH_USER, INTERNAL_ERROR}}

\* a response with an HTTP status and a description classified into a kind
ClassifyResponseStep ==
    \E status \in Statuses, description \in StatusDescriptions :
        /\ last' = Outcome("classify_response", TupleV(<<status, description>>),
                           Ret(StrV(ClassifyResponse(status, description)), 0))
        /\ UNCHANGED <<heap, pending>>

\* the descriptions each kind's predicate is asked about: those of
\* HTTPClientError and one for each prefix
ServerDescriptions ==
    {None, TextV(<<>>)} \cup
    {TextV(d) : d \in {USER_OR_CHAT_NOT_FOUND, BAD_REQUEST_TOKEN, RATE_LIMIT,
                       LOCAL_RATE_LIMIT, PERMISSION_DENIED, FORBIDDEN_BLOCKED,
                       BAD_REQUEST_INVALID_ID, FORBIDDEN_NO_SUCH_USER,
                       INTERNAL_ERROR}}

\* the responses handed to check_response
Response(description) == [description |-> description, kind |-> "ResponseParser"]
Responses == {Response(d) : d \in ServerDescriptions}

\* one kind's check_response applied to a response
CheckResponseStep ==
    \E i \in DOMAIN ERROR_CLASSES, response \in Responses :
        /\ last' = Outcome("check_response",
                           TupleV(<<StrV(ERROR_CLASSES[i]), response>>),
                           check_response(ERROR_CLASSES[i], response))
        /\ UNCHANGED <<heap, pending>>

\* the arguments errors are raised with
ErrorMessages == {None, TextV(<<>>), TextV(INTERNAL_ERROR)}
ErrorCodes == {IntV(400), IntV(1006)}
ErrorArgs(cls) ==
    CASE cls = "APIError" -> {<<c, m>> : c \in ErrorCodes, m \in ErrorMessages \ {None}}
      [] cls \in {"TimeOut", "RateLimited"} -> {<<>>}
      [] cls \in {"InvalidToken", "NotFound", "Forbidden"} ->
             {<<>>} \cup {<<m>> : m \in ErrorMessages}
      [] OTHER -> {<<m>> : m \in ErrorMessages}

IsError(v) == \E i \in DOMAIN ERROR_CLASSES : v.kind = ERROR_CLASSES[i]

\* e = cls(*args)
NewErrorStep(s) ==
    /\ heap[s] = None
    /\ \E i \in DOMAIN ERROR_CLASSES :
          \E args \in ErrorArgs(ERROR_CLASSES[i]) :
             /\ UNCHANGED pending
             /\ heap' = Bind(s, ErrorInit(ERROR_CLASSES[i], args))
             /\ last' = Outcome("raise", TupleV(<<StrV(ERROR_CLASSES[i]), TupleV(args)>>),
                                ErrorInit(ERROR_CLASSES[i], args))

\* cls, args = e.__reduce__(); cls(*args)
ReduceStep(s) ==
    /\ IsError(heap[s])
    /\ last' = Outcome("rebuild", heap[s], Rebuild(heap[s]))
    /\ UNCHANGED <<heap, pending>>

\* obj.f read by a caller
FieldReadStep(s) ==
    /\ IsEntity(heap[s])
    /\ \E f \in Fields(heap[s]) :
          /\ last' = Outcome("getattr", StrV(f), Ret(heap[s][f], 0))
          /\ UNCHANGED <<heap, pending>>

\* the shortcut methods callers run side by side, called with their required
\* arguments
ConcurrentMethods ==
    {"Chat.send", "Chat.leave", "Message.reply", "Message.edit",
     "Message.edit_caption", "Message.delete"}
RequiredArgs(name) == [p \in RequiredSet(name) |-> StrV(p)]

\* the message the client hands back for an edit
EditedMessage ==
    MessageInit([date |-> DateV(7), message_id |-> IntV(1), text |-> StrV("edited")])
ClientOutcomes == BotOutcomes \cup {Ret(EditedMessage, 0)}

\* caller c enters await x.method(...): the client is looked up and the call
\* issued; the method is suspended until the client answers
BeginDelegateStep(s, c) ==
    /\ pending[c] = None
    /\ \E name \in DelegationsOf(heap[s].kind) \cap ConcurrentMethods :
          IF get_bot(heap[s]).err # "none"
          THEN /\ last' = Outcome(name, TupleV(<<s, RequiredArgs(name)>>),
                                  get_bot(heap[s]))
               /\ UNCHANGED <<heap, pending>>
          ELSE /\ pending' =
                     [pending EXCEPT ![c] =
                         [call |-> Forwarded(heap[s], name, RequiredArgs(name)),
                          kind |-> "await", kw |-> RequiredArgs(name),
                          op |-> name, s |-> s]]
               /\ last' = Outcome("await", TupleV(<<s, RequiredArgs(name)>>),
                                  Ret(None, 0))
               /\ UNCHANGED heap

\* the client answers the call of caller c, whose method resumes and returns
EndDelegateStep(c) ==
    /\ pending[c] # None
    /\ \E r \in ClientOutcomes :
          /\ last' = [Outcome(pending[c].op, TupleV(<<pending[c].s, pending[c].kw>>),
                              DelegateResult(heap[pending[c].s], pending[c].op, r))
                         EXCEPT !.sent = IssuedCalls(pending[c].call, r)]
          /\ heap' = [heap EXCEPT ![pending[c].s] =
                         AfterDelegate(heap[pending[c].s], pending[c].op, r)]
          /\ pending' = [pending EXCEPT ![c] = None]

\* payloads of the standalone Chat
BalebotPinned ==
    {Absent, None, ListV(<<>>), ListV(<<DictV(MinMessage(IntV(1)))>>),
     ListV(<<DictV(MinMessage(IntV(1))), DictV(MinMessage(IntV(2)))>>)}
BalebotPayloads ==
    {None, EmptyDict} \cup
    {MkDict(f) : f \in [id : Ids, pinned_message : BalebotPinned,
                        title : {StrV("title"), Absent},
                        type : {StrV(PRIVATE), StrV(GROUP), Absent},
                        username : {StrV("name"), Absent}]}

\* x = Chat.dict(data, bot) of the standalone Chat
BalebotDictStep(s) ==
    /\ heap[s] = None
    /\ \E data \in BalebotPayloads :
          /\ UNCHANGED pending
          /\ heap' = Bind(s, BalebotChatDict(data, TheBot))
          /\ last' = Outcome("balebot.Chat.dict", data, BalebotChatDict(data, TheBot))

\* x = Chat(id, type, title, username, first_name, last_name), the pinned
\* messages left at their default or given
BalebotNewStep(s) ==
    /\ heap[s] = None
    /\ \E id \in Ids, pinned \in {ListV(<<>>), ListV(<<BalebotMessageDict(EmptyDict, None)>>)} :
          LET kw == [all_members_are_administrators |-> BoolV(TRUE), bot |-> None,
                     first_name |-> StrV("first"), id |-> id,
                     last_name |-> StrV("last"), pinned_message |-> pinned,
                     title |-> StrV("title"), type |-> StrV(GROUP),
                     username |-> StrV("name")]
          IN  /\ UNCHANGED pending
              /\ heap' = Bind(s, Ret(BalebotChatInit(kw), 1))
              /\ last' = Outcome("balebot.Chat", DictV(kw), Ret(BalebotChatInit(kw), 1))

\* x.to_dict() on a held standalone Chat
BalebotToDictStep(s) ==
    /\ heap[s].kind = "balebot.Chat"
    /\ last' = Outcome("balebot.Chat.to_dict", StrV(s), BalebotChatToDict(heap[s]))
    /\ UNCHANGED <<heap, pending>>

\* the shortcut methods called in the specification of all the entities
SampleDelegations == {"Chat.send", "Chat.leave", "Message.reply", "Message.delete"}

Next ==
    \/ ChatFromDictStep("a", ChatPayloads)
    \/ ChatMemberFromDictStep("a", ChatMemberPayloads)
    \/ MessageFromDictStep("a", MessagePayloads)
    \/ ContactFromDictStep("a")
    \/ VideoFromDictStep("a")
    \/ NewMessageStep("a", NewMessageArgs)
    \/ SetAttrStep("a")
    \/ AccessorStep("a")
    \/ DelegateStep("a", SampleDelegations)
    \/ DelStep("a")

Spec == Init /\ [][Next]_vars

\* two chats held side by side
NextPair ==
    \/ \E s \in Slots : ChatFromDictStep(s, ChatPayloads)
    \/ \E s \in Slots : AccessorStep(s)
    \/ \E s, t \in Slots : EqStep(s, t)
    \/ \E s \in Slots : DelStep(s)

SpecPair == Init /\ [][NextPair]_vars

\* the delegation layer: chats and messages of several chats, with and
\* without a client, and every shortcut method
ThreadChats == {DictV([id |-> j, type |-> StrV(GROUP)]) : j \in Ids}
ThreadMessages ==
    {DictV(Merge(MinMessage(i), [chat |-> c])) : i \in Ids, c \in ThreadChats} \cup
    {DictV(MinMessage(IntV(1))), DictV(Merge(MinMessage(IntV(1)), [chat |-> None]))}
DetachedMessageArgs ==
    {[date |-> DateV(7), message_id |-> IntV(1)],
     [chat |-> ChatInit([chat_id |-> IntV(MaxId), chat_type |-> StrV(GROUP)]),
      date |-> DateV(7), message_id |-> IntV(1)]}
AllDelegations == DelegationsOf("Chat") \cup DelegationsOf("Message")

NextDeleg ==
    \/ ChatFromDictStep("a", ThreadChats)
    \/ MessageFromDictStep("a", ThreadMessages)
    \/ NewChatStep("a")
    \/ NewMessageStep("a", DetachedMessageArgs)
    \/ SetAttrStep("a")
    \/ AccessorStep("a")
    \/ DelegateStep("a", AllDelegations)
    \/ DelStep("a")

SpecDeleg == Init /\ [][NextDeleg]_vars

\* the error taxonomy alone
NextErr == CheckDescriptionStep(Descriptions) \/ ClassifyStep \/ ClassifyResponseStep

SpecErr == Init /\ [][NextErr]_vars

\* the error kinds as classes: their predicates, construction and rebuilding
NextKinds ==
    \/ CheckDescriptionStep(ServerDescriptions)
    \/ CheckResponseStep
    \/ NewErrorStep("a")
    \/ ReduceStep("a")
    \/ DelStep("a")

SpecKinds == Init /\ [][NextKinds]_vars

\* two entities of the same class held side by side
TwinChats == {DictV([id |-> IntV(1), type |-> StrV(t)]) : t \in {PRIVATE, GROUP, CHANNEL}}
TwinMembers ==
    {DictV([status |-> StrV(st), user |-> UserPayload(IntV(1))]) :
        st \in {OWNER, ADMIN, MEMBER}}
TwinMessages ==
    ThreadMessages \cup
    {DictV(Merge(MinMessage(IntV(1)), f)) :
        f \in {[caption |-> StrV("caption")], [text |-> StrV("text")],
               [video |-> VideoPayload], [document |-> FilePayload],
               [reply_to_message |-> DictV(MinMessage(IntV(2)))]}}

NextTwin ==
    \/ \E s \in Slots : ChatFromDictStep(s, TwinChats)
    \/ \E s \in Slots : ChatMemberFromDictStep(s, TwinMembers)
    \/ \E s \in Slots : MessageFromDictStep(s, TwinMessages)
    \/ \E s \in Slots : SetAttrStep(s)
    \/ \E s \in Slots : AccessorStep(s)
    \/ \E s \in Slots : DelStep(s)

SpecTwin == Init /\ [][NextTwin]_vars

\* concurrent callers on one entity: reads, accessors and shortcut methods
\* suspended at their await
NextConc ==
    \/ ChatFromDictStep("a", ThreadChats)
    \/ MessageFromDictStep("a", ThreadMessages)
    \/ NewChatStep("a")
    \/ FieldReadStep("a")
    \/ AccessorStep("a")
    \/ \E c \in Callers : BeginDelegateStep("a", c)
    \/ \E c \in Callers : EndDelegateStep(c)

SpecConc == Init /\ [][NextConc]_vars

\* the standalone Chat: decoding, construction and encoding
NextBalebot ==
    \/ BalebotDictStep("a")
    \/ BalebotNewStep("a")
    \/ BalebotToDictStep("a")
    \/ DelStep("a")

SpecBalebot == Init /\ [][NextBalebot]_vars

(***************************************************************************)
(* Properties.                                                             *)
(***************************************************************************)
FromDictOps == {"Chat.from_dict", "ChatMember.from_dict", "Message.from_dict"}

\* a value that is there: not null, not the sentinel, not an empty list and
\* not an empty payload
Present(v) == v \notin {None, MissingValue, ListV(<<>>), EmptyDict}

\* C1: once an entity (Chat, ChatMember, Message, Contact, Video) is
\* constructed, every attempt to assign one of its fields fails with an error
\* and leaves the object as it was.
C1_WriteAfterConstructionFails ==
    [][last'.op = "setattr" =>
          /\ IsEntity(heap["a"])
          /\ last'.err = "AttributeError"
          /\ heap' = heap]_vars

C1_Witness ==
    /\ last.op = "setattr" /\ last.err = "AttributeError"
    /\ heap["a"].kind = "Message" /\ last.arg = StrV("text")

\* the optional fields of a decoded entity, and the wire key each is read from
OptionalFields(kind) ==
    CASE kind = "Chat" -> ChatParams \ ChatRequired
      [] kind = "ChatMember" -> ChatMemberFlags
      [] kind = "Message" -> MessageOptional
WireKey(f) ==
    CASE f = "from_user" -> "from"
      [] f = "photos" -> "photo"
      [] OTHER -> f

\* C2: every optional field absent from the payload decoded by Chat.from_dict,
\* ChatMember.from_dict or Message.from_dict holds the missing-value sentinel
\* in the entity, nested-entity fields included.
C2_AbsentFieldsHoldSentinel ==
    (last.op \in FromDictOps /\ last.err = "none" /\ IsEntity(last.ret)) =>
        \A f \in OptionalFields(last.ret.kind) :
            WireKey(f) \notin DOMAIN last.arg.m => last.ret[f] = MissingValue

\* the length of the reply chain of a decoded message
RECURSIVE ReplyDepth(_)
ReplyDepth(msg) ==
    IF ~IsEntity(msg.reply_to_message) THEN 0
    ELSE 1 + ReplyDepth(msg.reply_to_message)

\* C3: the reply chain of a decoded Message has depth at most 1, whatever the
\* nesting depth of reply_to_message in the payload.
C3_ReplyDepthAtMostOne ==
    (last.op = "Message.from_dict" /\ IsEntity(last.ret)) => ReplyDepth(last.ret) <= 1

AttachmentOrder == <<"video", "photos", "audio", "animation", "voice", "document">>
FirstPresent(msg) ==
    LET idx == {i \in DOMAIN AttachmentOrder : Present(msg[AttachmentOrder[i]])}
    IN  IF idx = {} THEN None
        ELSE msg[AttachmentOrder[CHOOSE i \in idx : \A j \in idx : i <= j]]

\* C4: Message.attachment is the first present one of video, photos, audio,
\* animation, voice, document, in that order, and null when none is present
\* (an empty photos list and the sentinel count as not present).
C4_AttachmentPriority ==
    last.op = "attachment" => last.ret = FirstPresent(heap[last.arg.s])

C4_Witness ==
    /\ last.op = "attachment"
    /\ ~Present(heap["a"].video) /\ Present(heap["a"].photos)
    /\ Present(heap["a"].document)
    /\ last.ret = heap["a"].photos

\* C5: Message.content is the caption when caption and text are both present,
\* the text when only the text is present, and null when neither is (whether
\* the absent fields hold null or the sentinel).
C5_ContentCaptionTextOrNull ==
    last.op = "content" =>
        LET msg == heap[last.arg.s] IN
        /\ (Present(msg.caption) /\ Present(msg.text)) => last.ret = msg.caption
        /\ (~Present(msg.caption) /\ Present(msg.text)) => last.ret = msg.text
        /\ (~Present(msg.caption) /\ ~Present(msg.text)) => last.ret = None

\* "token not found" occurs in str in some letter case
ContainsTokenNotFound(str) ==
    \E i \in 0..(Len(str) - Len(TOKEN_NOT_FOUND_LOWER)) :
        \A k \in DOMAIN TOKEN_NOT_FOUND_LOWER :
            str[i + k] \in {TOKEN_NOT_FOUND_LOWER[k], UpperChar(TOKEN_NOT_FOUND_LOWER[k])}

\* C6: "Forbidden: bot was blocked" is classified forbidden, "Bad Request:
\* invalid id" bad-request, and every description containing "token not found"
\* in any letter case invalid-token, also when it starts with "Bad Request:".
C6_ClassifyDescriptions ==
    last.op = "classify" =>
        /\ last.arg = TextV(FORBIDDEN_BLOCKED) => last.ret = StrV("Forbidden")
        /\ last.arg = TextV(BAD_REQUEST_INVALID_ID) => last.ret = StrV("BadRequest")
        /\ (last.arg # None /\ ContainsTokenNotFound(last.arg.chars)) =>
               last.ret = StrV("InvalidToken")

C6_Witness ==
    /\ last.op = "classify" /\ last.arg = TextV(BAD_REQUEST_TOKEN)
    /\ Truthy(BadRequestCheck(last.arg))
    /\ last.ret = StrV("InvalidToken")

ChatPredicates == {"is_private_chat", "is_group_chat", "is_channel_chat"}

\* C7: for a Chat of type private, group or channel, exactly one of
\* is_private_chat, is_group_chat, is_channel_chat is true.
C7_ExactlyOneChatKind ==
    \A s \in Slots :
        (heap[s].kind = "Chat"
            /\ heap[s].type \in {StrV(PRIVATE), StrV(GROUP), StrV(CHANNEL)}) =>
            Cardinality({p \in ChatPredicates : Access(heap[s], p) = BoolV(TRUE)}) = 1

C7_Witness ==
    /\ heap["a"].kind = "Chat" /\ heap["a"].type = StrV(GROUP)
    /\ last.op = "is_group_chat" /\ last.ret = BoolV(TRUE)

\* C8: two Chats decoded from payloads with the same id are equal and have the
\* same hash, whatever their other fields; two Chats with different ids are
\* not equal.
C8_ChatIdentityIsId ==
    (last.op = "eq" /\ heap["a"].kind = "Chat" /\ heap["b"].kind = "Chat") =>
        LET x == heap[last.arg.t[1]]
            y == heap[last.arg.t[2]]
        IN  /\ x.id = y.id => last.ret = TupleV(<<TRUE, TRUE>>)
            /\ x.id # y.id => last.ret.t[1] = FALSE

C8_Witness ==
    /\ last.op = "eq" /\ last.arg = TupleV(<<"a", "b">>)
    /\ heap["a"].kind = "Chat" /\ heap["b"].kind = "Chat"
    /\ heap["a"].id = heap["b"].id
    /\ heap["a"].type # heap["b"].type /\ heap["a"].photo # heap["b"].photo
    /\ last.ret = TupleV(<<TRUE, TRUE>>)

\* C9: Chat.from_dict, ChatMember.from_dict and Message.from_dict return null,
\* raise nothing and construct no entity when the data is null or an empty
\* mapping.
C9_EmptyDataDecodesToNull ==
    (last.op \in FromDictOps /\ last.arg \in {None, EmptyDict}) =>
        last.err = "none" /\ last.ret = None /\ last.made = 0

C9_Witness ==
    /\ last.op = "Chat.from_dict" /\ last.arg = EmptyDict
    /\ last.err = "none" /\ last.ret = None

\* C10: for every non-empty payload, with any of its fields absent,
\* Chat.from_dict, ChatMember.from_dict and Message.from_dict raise no error.
C10_PartialPayloadNeverRaises ==
    (last.op \in FromDictOps /\ last.arg \notin {None, EmptyDict}) => last.err = "none"

\* C11: Message.from_dict reads the sender from the wire key "from" and
\* exposes it as from_user and as author: the decoded from_user is the User
\* decoded from payload["from"] (null when there is none), the key "from" is
\* not among the constructor's arguments, and a payload key "from_user" does
\* not populate the field.
C11_SenderReadFromWireKeyFrom ==
    /\ (last.op = "Message.from_dict" /\ IsEntity(last.ret)) =>
          /\ last.ret.from_user =
                 SiblingFromDict("User", Get(last.arg.m, "from"), last.ret.bot).val
          /\ "from" \notin DOMAIN RenameSender(last.arg.m, last.ret.bot)
          /\ "from" \notin DOMAIN last.arg.m => last.ret.from_user = None
    /\ last.op = "author" => last.ret = heap[last.arg.s].from_user

C11_Witness ==
    /\ last.op = "Message.from_dict" /\ IsEntity(last.ret)
    /\ {"from", "from_user"} \subseteq DOMAIN last.arg.m
    /\ last.arg.m["from"] # last.arg.m["from_user"]
    /\ IsEntity(last.ret.from_user) /\ last.ret.from_user.kind = "User"
    /\ last.ret.from_user.id = last.arg.m["from"].m["id"]

C13_PhotosNullWhenNothingParsed ==
    (last.op = "Message.from_dict" /\ IsEntity(last.ret)
        /\ GetOr(last.arg.m, "photo", ListV(<<>>)) = ListV(<<>>)) =>
        last.ret.photos \in {None, MissingValue}

\* the Chat shortcut methods that forward their arguments with the chat's id
ChatForwardingMethods ==
    {"Chat.send", "Chat.send_document", "Chat.send_photo", "Chat.send_video",
     "Chat.send_animation", "Chat.send_audio", "Chat.send_location",
     "Chat.send_contact", "Chat.send_invoice", "Chat.send_sticker",
     "Chat.send_media_group", "Chat.leave", "Chat.set_photo",
     "Chat.get_members_count", "Chat.get_administrators"}
\* the client operation that corresponds to each of them
ExpectedOperation(name) ==
    CASE name = "Chat.send" -> "send_message"
      [] name = "Chat.send_document" -> "send_document"
      [] name = "Chat.send_photo" -> "send_photo"
      [] name = "Chat.send_video" -> "send_video"
      [] name = "Chat.send_animation" -> "send_animation"
      [] name = "Chat.send_audio" -> "send_audio"
      [] name = "Chat.send_location" -> "send_location"
      [] name = "Chat.send_contact" -> "send_contact"
      [] name = "Chat.send_invoice" -> "send_invoice"
      [] name = "Chat.send_sticker" -> "send_sticker"
      [] name = "Chat.send_media_group" -> "send_media_group"
      [] name = "Chat.leave" -> "leave_chat"
      [] name = "Chat.set_photo" -> "set_chat_photo"
      [] name = "Chat.get_members_count" -> "get_chat_members_count"
      [] name = "Chat.get_administrators" -> "get_chat_administrators"
\* the keyword under which the client receives a keyword argument
ForwardName(p) == IF p = "payload" THEN "invoice_payload" ELSE p

\* C14: a Chat delegation method called on a chat that has a client makes
\* exactly one call, of the corresponding client operation, with the chat's
\* own id first and the caller's arguments unchanged: the required ones in
\* order, the optional ones under their keywords.  When the call raises, the
\* caller gets that error and still exactly one call was made.
C14_ChatForwardsOnce ==
    (last.op \in ChatForwardingMethods /\ heap[last.arg.t[1]].bot # None) =>
        LET chat == heap[last.arg.t[1]]
            kw == last.arg.t[2]
            req == RequiredParams(last.op)
        IN  /\ Len(last.sent) = 1
            /\ last.sent[1].call.op = ExpectedOperation(last.op)
            /\ Len(last.sent[1].call.pos) = 1 + Len(req)
            /\ last.sent[1].call.pos[1] = chat.id
            /\ \A i \in DOMAIN req : last.sent[1].call.pos[i + 1] = kw[req[i]]
            /\ \A p \in DOMAIN kw \ RequiredSet(last.op) :
                  /\ ForwardName(p) \in DOMAIN last.sent[1].call.kw
                  /\ last.sent[1].call.kw[ForwardName(p)] = kw[p]
            /\ last.err = last.sent[1].err

C14_Witness ==
    /\ last.op = "Chat.send_invoice" /\ "payload" \in DOMAIN last.arg.t[2]
    /\ Len(last.sent) = 1 /\ last.sent[1].err = "APIError"
    /\ last.err = "APIError"
    /\ last.sent[1].call.pos[1] = IntV(MaxId)

\* C15: a delegation method of Chat or Message called on an entity that has
\* no client fails with an error, and no call is made on any client.
C15_NoClientNoCall ==
    (last.op \in AllDelegations /\ heap[last.arg.t[1]].bot = None) =>
        last.err # "none" /\ last.sent = <<>>

C15_Witness ==
    /\ last.op = "Message.reply" /\ heap["a"].kind = "Message"
    /\ heap["a"].bot = None
    /\ last.err = "RuntimeError" /\ last.sent = <<>>

\* C16: every delegation method of Chat and Message returns to its caller
\* the result the client operation returned, Chat.leave and Chat.add_user
\* included.
C16_ReturnsClientResult ==
    (last.op \in AllDelegations /\ Len(last.sent) = 1 /\ last.sent[1].err = "none") =>
        last.err = "none" /\ last.ret = last.sent[1].val

\* C17: Message.reply_media_group calls send_media_group with the message's
\* chat_id as chat identifier and the message's id as reply_to_message_id.
C17_ReplyMediaGroupTargets ==
    (last.op = "Message.reply_media_group" /\ Len(last.sent) = 1) =>
        LET msg == heap[last.arg.t[1]] IN
        /\ last.sent[1].call.op = "send_media_group"
        /\ last.sent[1].call.pos[1] = chat_id(msg)
        /\ "reply_to_message_id" \in DOMAIN last.sent[1].call.kw
        /\ last.sent[1].call.kw["reply_to_message_id"] = msg.message_id

ReplyMethods ==
    {"Message.reply", "Message.reply_document", "Message.reply_photo",
     "Message.reply_sticker", "Message.reply_video", "Message.reply_animation",
     "Message.reply_audio", "Message.reply_location", "Message.reply_contact"}
EditMethods == {"Message.edit", "Message.edit_caption", "Message.delete"}

\* C18: each reply method of Message other than reply_media_group makes
\* exactly one call whose chat identifier is the message's chat_id and whose
\* reply_to_message_id is the message's message_id; edit, edit_caption and
\* delete make one call with (chat_id, message_id) of the message.
C18_ReplyAndEditTargets ==
    (last.op \in ReplyMethods \cup EditMethods /\ heap[last.arg.t[1]].bot # None) =>
        LET msg == heap[last.arg.t[1]] IN
        /\ Len(last.sent) = 1
        /\ last.sent[1].call.pos[1] = chat_id(msg)
        /\ last.op \in ReplyMethods =>
              /\ "reply_to_message_id" \in DOMAIN last.sent[1].call.kw
              /\ last.sent[1].call.kw["reply_to_message_id"] = msg.message_id
        /\ last.op \in EditMethods => last.sent[1].call.pos[2] = msg.message_id

C18_Witness ==
    /\ last.op = "Message.reply_location" /\ Len(last.sent) = 1
    /\ heap["a"].kind = "Message" /\ IsEntity(heap["a"].chat)
    /\ heap["a"].chat.id # heap["a"].message_id
    /\ last.sent[1].call.pos[1] = heap["a"].chat.id
    /\ last.sent[1].call.kw["reply_to_message_id"] = heap["a"].message_id

FixedStatusKinds == {"NotFound", "Forbidden", "RateLimited"}

\* C19: exactly not-found, forbidden and rate-limited carry a fixed status
\* code, standing for 404, 403 and 429, and every other kind carries none; a
\* response with one of these statuses is classified as that kind whatever
\* its description matches.
C19_FixedStatusKindsFirst ==
    /\ \A i \in DOMAIN ERROR_CLASSES :
          STATUS_CODE(ERROR_CLASSES[i]) # None <=> ERROR_CLASSES[i] \in FixedStatusKinds
    /\ ResponseStatusCode(STATUS_CODE("NotFound")) = 404
    /\ ResponseStatusCode(STATUS_CODE("Forbidden")) = 403
    /\ ResponseStatusCode(STATUS_CODE("RateLimited")) = 429
    /\ last.op = "classify_response" =>
          /\ last.arg.t[1] = 404 => last.ret = StrV("NotFound")
          /\ last.arg.t[1] = 403 => last.ret = StrV("Forbidden")
          /\ last.arg.t[1] = 429 => last.ret = StrV("RateLimited")

C19_Witness ==
    /\ last.op = "classify_response"
    /\ last.arg = TupleV(<<404, TextV(BAD_REQUEST_TOKEN)>>)
    /\ Classify(last.arg.t[2]) = "InvalidToken"
    /\ last.ret = StrV("NotFound")

DescriptionKinds == {"InvalidToken", "NotFound", "Forbidden", "BadRequest", "RateLimited"}

\* C21: each of the kinds invalid-token, not-found, forbidden, bad-request and
\* rate-limited has a server description that its own check_description
\* matches: whenever the predicate of one of them has been asked, some
\* description makes it answer true.
C21_EachKindMatchesSomeDescription ==
    last.op \in DescriptionKinds =>
        \E description \in ServerDescriptions :
            Truthy(CheckDescription(last.op, description))

\* C28: check_response of every kind answers false for every response, and so
\* differs from the kind's check_description whenever that one matches the
\* response's description.
C28_CheckResponseAlwaysFalse ==
    last.op = "check_response" =>
        LET cls == last.arg.t[1].s
            response == last.arg.t[2]
        IN  /\ last.err = "none"
            /\ last.ret = BoolV(FALSE)
            /\ Truthy(CheckDescription(cls, response.description)) =>
                   last.ret # CheckDescription(cls, response.description)

C28_Witness ==
    /\ last.op = "check_response"
    /\ last.arg.t[1] = StrV("InvalidToken")
    /\ last.arg.t[2].description = TextV(BAD_REQUEST_TOKEN)
    /\ Truthy(InvalidTokenCheck(last.arg.t[2].description))
    /\ last.ret = BoolV(FALSE)

\* C29: rebuilding an error from its __reduce__() succeeds and gives an error
\* of the same kind with the same message.
C29_RebuildFromReduce ==
    last.op = "rebuild" =>
        /\ last.err = "none"
        /\ last.ret.kind = last.arg.kind
        /\ last.ret.message = last.arg.message

\* C23: in every delegation method of Chat and Message, an optional argument
\* the caller does not supply reaches the client as the missing-value
\* sentinel, whether it is forwarded as a keyword or in position.
C23_UnsuppliedOptionalsAreSentinel ==
    (last.op \in AllDelegations /\ Len(last.sent) = 1) =>
        LET kw == last.arg.t[2]
            call == last.sent[1].call
        IN  \A p \in OptionalSet(last.op) \ DOMAIN kw :
               /\ \A e \in Keywords(last.op) :
                     e[2] = p => call.kw[e[1]] = MissingValue
               /\ \A i \in DOMAIN Positional(last.op) :
                     Positional(last.op)[i] = p => call.pos[i] = MissingValue

\* C24: the identity of a ChatMember is the pair (user identifier, status);
\* is_owner is true exactly for the status creator, is_admin exactly for
\* creator and administrator, so is_owner implies is_admin and any other
\* status makes both false.
C24_ChatMemberIdentityAndRoles ==
    heap["a"].kind = "ChatMember" =>
        LET member == heap["a"] IN
        /\ member._id = TupleV(<<member.user.user_id, member.status>>)
        /\ Access(member, "is_owner") = BoolV(member.status = StrV("creator"))
        /\ Access(member, "is_admin") =
               BoolV(member.status \in {StrV("creator"), StrV("administrator")})
        /\ Access(member, "is_owner") = BoolV(TRUE) =>
               Access(member, "is_admin") = BoolV(TRUE)
        /\ last.op \in {"is_owner", "is_admin"} => last.ret = Access(member, last.op)

C24_Witness ==
    /\ heap["a"].kind = "ChatMember" /\ heap["a"].status = StrV("creator")
    /\ heap["a"]._id = TupleV(<<IntV(MaxId), StrV("creator")>>)
    /\ last.op = "is_admin" /\ last.ret = BoolV(TRUE)

\* C25: Message.chat_id is the id of the nested chat when there is one and
\* None when the chat is null or the sentinel; Message.reply_to_message_id is
\* the message_id of the nested reply when there is one and None otherwise.
C25_NestedIdsOrNone ==
    heap["a"].kind = "Message" =>
        LET msg == heap["a"] IN
        /\ IsEntity(msg.chat) => Access(msg, "chat_id") = msg.chat.id
        /\ msg.chat \in {None, MissingValue} => Access(msg, "chat_id") = None
        /\ IsEntity(msg.reply_to_message) =>
               Access(msg, "reply_to_message_id") = msg.reply_to_message.message_id
        /\ msg.reply_to_message \in {None, MissingValue} =>
               Access(msg, "reply_to_message_id") = None
        /\ last.op \in {"chat_id", "reply_to_message_id"} =>
               last.ret = Access(msg, last.op)

\* a message built directly, its chat left at the sentinel, asked for chat_id
C25_Witness ==
    /\ heap["a"].kind = "Message" /\ heap["a"].chat = MissingValue
    /\ last.op = "chat_id" /\ last.ret = None

\* the user identifier a member method hands to the client
ForwardedUser(name, call) ==
    IF name = "Chat.get_member" THEN call.kw["user_id"] ELSE call.pos[2]

\* C26: Chat.add_user, get_member, ban_member and unban_member forward a User
\* argument as that user's user_id and an int or str unchanged, so a call
\* with a User u and a call with u.user_id make the same call on the client.
C26_UserResolvedToIdentifier ==
    (ResolvesUser(last.op) /\ Len(last.sent) = 1) =>
        LET chat == heap[last.arg.t[1]]
            kw == last.arg.t[2]
            call == last.sent[1].call
        IN  IF IsEntity(kw["user"])
            THEN /\ ForwardedUser(last.op, call) = kw["user"].user_id
                 /\ call = Forwarded(chat, last.op,
                                     [kw EXCEPT !["user"] = kw["user"].user_id])
            ELSE ForwardedUser(last.op, call) = kw["user"]

C26_Witness ==
    /\ last.op = "Chat.unban_member" /\ Len(last.sent) = 1
    /\ IsEntity(last.arg.t[2]["user"]) /\ last.arg.t[2]["user"].kind = "User"
    /\ last.sent[1].call.pos[2] = IntV(MaxId)

\* C27: with several callers reading fields, reading accessors and awaiting
\* shortcut methods of the same entity, in any interleaving, no step changes
\* a field of the entity or its client; an edit that succeeds shows only as
\* the entity the client returned to the caller.
C27_DelegationNeverMutates ==
    [][/\ \A s \in Slots : IsEntity(heap[s]) => heap'[s] = heap[s]
       /\ (last'.op \in {"Message.edit", "Message.edit_caption"}
              /\ last'.err = "none") =>
             /\ Len(last'.sent) = 1
             /\ last'.ret = last'.sent[1].val]_vars

\* an edit returns the new message while another caller's call is in flight
C27_Witness ==
    /\ last.op = "Message.edit" /\ last.ret = EditedMessage
    /\ heap["a"].kind = "Message" /\ heap["a"].text = MissingValue
    /\ heap["a"].bot = TheBot
    /\ \E c \in Callers : pending[c] # None /\ pending[c].op = "Message.delete"

\* the derived accessors the entities offer
DerivedAccessors ==
    {"is_private_chat", "is_group_chat", "is_channel_chat", "attachment", "content",
     "chat_id", "reply_to_message_id", "is_owner", "is_admin"}

\* same class and the same value in every field
SameFields(x, y) ==
    /\ IsEntity(x) /\ IsEntity(y) /\ x.kind = y.kind
    /\ \A f \in Fields(x) : x[f] = y[f]

C30_StandaloneChatNeverEncodes ==
    /\ last.op = "balebot.Chat.to_dict" =>
           last.err = "KeyError" /\ last.ret.kind # "dict"
    /\ (last.op = "balebot.Chat.dict" /\ last.arg.kind = "dict"
           /\ "pinned_message" \notin DOMAIN last.arg.m) =>
           last.err = "KeyError" /\ heap["a"] = None
    /\ (last.op = "balebot.Chat.dict" /\ last.err = "none") =>
           BalebotChatToDict(last.ret) # Ret(last.arg, 0)

\* a chat decoded with two pinned messages, then asked for its mapping
C30_Witness ==
    /\ heap["a"].kind = "balebot.Chat" /\ heap["a"].bot = TheBot
    /\ Len(heap["a"].pinned_message.l) = 2
    /\ last.op = "balebot.Chat.to_dict" /\ last.err = "KeyError"

====
